---- MODULE Spec2Model ----
\* A model of the Zapier browser client (ZapierBrowserClient), its session
\* store on tmpfs, its dual-path (internal API / page) operations, its result
\* normalizer, and the CLI wrapper that owns one client per invocation.
\*
\* One public call runs as a short sequence of steps (pc); every answer of the
\* outside world (the vendor's server, the browser, the page) is an input
\* drawn with \E at the step that reads it.
EXTENDS Naturals, Integers, Sequences, FiniteSets, TLC

\* ------------------------------------------------------------------ bounds

\* Successful logins (each writes a new authentication snapshot) in one run.
MaxLogins == 2
\* Browser launches (each may write a new live-process handle) in one run.
MaxLaunches == 2
\* Items in one vendor payload.
MaxItems == 1
\* Items in one vendor payload given to the normalizer on its own.
MaxListed == 2

\* ------------------------------------------------------- program constants

\* body.substring(0, 500) in the request-failure message.
BodyLimit == 500

\* ------------------------------------------------------------------- state

VARIABLES
    storageState,  \* STORAGE_STATE_PATH: 0 = no file, k = snapshot of the k-th login
    cdpSession,    \* CDP_SESSION_PATH: 0 = no file, k = handle of the k-th launch
    creds,         \* config.zapier holds email and password
    debug,         \* this.debug (the --debug flag of the invocation)
    client,        \* ZapierCombinedClient._browserClient is set
    mcp,           \* ZapierCombinedClient._mcpClient: "none", "created" (set, not connected), "connected"
    listener,      \* the response listener and the promise of a read fallback
    browser,       \* this.browser: "none", "launched" or "connected"
    context,       \* this.context is set
    page,          \* this.page is set
    restored,      \* the snapshot the context was created from (contextOptions.storageState), 0 = none
    logins,        \* snapshots written so far
    launches,      \* browsers launched so far
    pc,            \* the step the running call is at, "idle" between calls
    ret,           \* where ensureLoggedIn returns to
    phase,         \* the part of the call that runs: "pre", "primary", "fallback", "ui"
    op,            \* the running (or last) public call and its arguments
    after,         \* what follows the call: "idle", or "exit" inside disconnect()
    result,        \* what the last call returned or raised
    obs,           \* what the running (or last) call did so far
    cli            \* what the CLI invocation did, and what the one before it left

vars == <<storageState, cdpSession, creds, debug, client, mcp, listener, browser, context, page,
          restored, logins, launches, pc, ret, phase, op, after, result, obs, cli>>

store == <<storageState, cdpSession>>
config == <<creds, debug>>
memory == <<browser, context, page, restored>>
control == <<pc, ret, phase, op, after>>

\* ------------------------------------------------------ values of the model

ReadOps == {"listZaps", "viewHistory", "viewError"}
MutatingOps == {"replayRun", "toggleZap"}

\* Response statuses the vendor may answer with; response.ok() is 200..299.
Statuses == {200, 401, 403, 404, 500}
IsOk(status) == status >= 200 /\ status <= 299

NoResult == [kind |-> "none"]

NoBody == [len |-> 0, at |-> 0, mlen |-> 0]

NoFlow == [text |-> "unread", tail |-> <<>>]

\* No fallback has set up its promise.
NoListener == [on |-> FALSE]

NoUi == [matches |-> {}, control |-> 0, dialog |-> FALSE, steps |-> <<>>]

\* What a call has done so far; reset when a call starts.
\*   probes, lastProbe   session-validity probes made, and the last one's answer
\*   loginRuns           login flows run
\*   login               the way the login flow after the last probe ended
\*   saved               snapshots written
\*   requests, status    primary-path requests made, and the last one's status
\*   body                the body of a primary-path answer whose status does
\*                       not decide what it is (not 2xx, 401, 403 or 404)
\*   atFail              the store when that answer came
\*   absent              that answer's error message reads as "not found"
\*   fallbacks           times the read fallback was entered
\*   cleared             cleanupSessionFiles() ran
\*   reconnected, launched   what ensureBrowser() did
\*   dropped             the browsers this.browser pointed to when launch()
\*                       overwrote it: "connected" (over CDP), "launched"
\*   relogin             how the first ensureLoggedIn() after a 401 ended
\*   flow                the body text the login flow after the last probe read
\*                       when its 60 s wait ran out ("unread": it read none),
\*                       and the steps it took from there, in order
\*   nav                 the page navigation of the fallback or UI part: "ok", "failed"
\*   listen              what the read fallback's listener gave: an "answer"
\*                       with a non-empty list, or the "timeout" of its 15 s timer
\*   clicked, confirmed  the UI control and the confirmation button were clicked
\*   attempts            times the try block of a mutating operation was entered
\*   ui                  the UI part: the candidates the page had, the one
\*                       clicked (0 = none), a confirmation button was
\*                       visible after the click, the steps taken in order
\*   patch               the status sent in the PATCH body
\*   closeFailed         browser.close() threw
\*   second, firstOk     the call is a reset() right after a reset(), and that one's success
NoObs == [probes |-> 0, lastProbe |-> FALSE, loginRuns |-> 0, login |-> "none",
          saved |-> 0, requests |-> 0, status |-> 0, body |-> NoBody,
          atFail |-> <<0, 0>>, absent |-> FALSE, fallbacks |-> 0,
          cleared |-> FALSE, reconnected |-> FALSE, launched |-> FALSE,
          dropped |-> {},
          relogin |-> "none", flow |-> NoFlow, nav |-> "none", listen |-> "none",
          attempts |-> 0, clicked |-> FALSE, confirmed |-> FALSE, ui |-> NoUi,
          patch |-> "none",
          closeFailed |-> FALSE, second |-> FALSE, firstOk |-> FALSE]

\* What happened across calls.
\*   fresh     the invocation has run no command yet
\*   left      the store as the command of the invocation left it, noted
\*             when disconnect() starts and kept until the next command
\*   expired   the status (401 or 403) of a primary-path answer that cleared
\*             the session, until the next ensureLoggedIn() has ended; 0 = none
\*   ran       the command families the invocation has run: "mcp", "management"
NoCli == [fresh |-> TRUE, left |-> <<0, 0>>, expired |-> 0, ran |-> {}]

\* ------------------------------------------------------------ session store

\* cleanupSessionFiles(): unlink both files, ignoring errors.
CleanupSessionFiles ==
    /\ storageState' = 0
    /\ cdpSession' = 0

\* A session file that exists and does not hold JSON.
Corrupt == -1

\* loadCDPSession(): the handle, or null when the file does not exist or
\* JSON.parse throws.
LoadCDPSession == IF cdpSession = Corrupt THEN 0 ELSE cdpSession

\* A save that writes nothing.
SaveStorageStateSkipped == UNCHANGED <<storageState, logins>>

\* saveStorageState(): writes the context's cookies when a context is held.
\* The snapshot written is a new one.
SaveStorageState ==
    IF context
    THEN storageState' = logins + 1 /\ logins' = logins + 1
    ELSE UNCHANGED <<storageState, logins>>

\* ------------------------------------------------------- errors and returns

\* A classification that takes a 404 for a session expiry as well.
SessionExpiredOr404(status) == status \in {401, 403, 404}

\* status === 401 || status === 403
SessionExpired(status) == status \in {401, 403}

\* A test of the status alone, blind to what the message holds.
EndpointAbsentByStatus(e) == e.status = 404

\* apiError.message.includes("404") || apiError.message.includes("Not Found")
EndpointAbsent(e) == e.marker

Error(name, status, bodyLen, marker) ==
    [kind |-> "error", error |-> name, status |-> status, bodyLen |-> bodyLen,
     marker |-> marker]

\* The call ends: its value or its error goes to the caller.
Return(r, o) ==
    /\ result' = r
    /\ obs' = o
    /\ pc' = IF after = "exit" THEN "exit" ELSE "idle"
    /\ UNCHANGED <<ret, phase, op, after>>

\* Catch blocks of which the read operations' one enters the page fallback
\* again when the fallback itself raised a "not found" error.
ThrowRetries(e, o) ==
    CASE op.name \in ReadOps /\ EndpointAbsent(e) /\ o.fallbacks < 3 ->
            /\ pc' = "ensureBrowser"
            /\ ret' = "fallbackNav"
            /\ phase' = "fallback"
            /\ obs' = [o EXCEPT !.fallbacks = @ + 1]
            /\ UNCHANGED <<op, after, result>>
      [] OTHER -> Return(e, o)

\* The catch blocks of the public operations. A read operation's catch around
\* apiGet enters the page fallback when the message includes "404" or
\* "Not Found" and rethrows otherwise; toggleZap's catch around apiPatch and
\* replayRun's catch around the POST swallow every error and go on to the UI.
Throw(e, o) ==
    CASE op.name \in ReadOps /\ phase = "primary" /\ EndpointAbsent(e) ->
            /\ pc' = "ensureBrowser"
            /\ ret' = "fallbackNav"
            /\ phase' = "fallback"
            /\ obs' = [o EXCEPT !.fallbacks = @ + 1]
            /\ UNCHANGED <<op, after, result>>
      [] op.name = "toggleZap" /\ phase = "primary" ->
            /\ pc' = "toggleUI"
            /\ phase' = "ui"
            /\ obs' = o
            /\ UNCHANGED <<ret, op, after, result>>
      [] op.name = "replayRun" /\ phase = "primary" ->
            /\ pc' = "replayUI"
            /\ phase' = "ui"
            /\ obs' = o
            /\ UNCHANGED <<ret, op, after, result>>
      [] OTHER -> Return(e, o)

\* ------------------------------------------------- browser session controller

ConnectOutcomes == {"fail", "noContext", "noPage", "page"}

\* ensureBrowser(): reconnect over CDP when a handle is on file and no browser
\* is held; reuse the page held in memory; otherwise launch, restore the
\* snapshot into the new context when one is on file, and save a new handle
\* when the browser gives a wsEndpoint. newContext() reads the snapshot file
\* and throws when it does not hold JSON; nothing in ensureBrowser catches it.
\* A browser that this.browser pointed to when launch() overwrote it is left
\* running and is never closed.
EnsureBrowser ==
    /\ pc = "ensureBrowser"
    /\ \E conn \in ConnectOutcomes, ws \in BOOLEAN :
        LET tryCdp == LoadCDPSession # 0 /\ browser = "none"
            connected == tryCdp /\ conn # "fail"
            failed == tryCdp /\ conn = "fail"
            reused == connected /\ conn = "page"
            kept == ~reused /\ page
            launch == ~reused /\ ~kept
            snapshot == IF failed THEN 0 ELSE storageState
            thrown == launch /\ snapshot = Corrupt
            replaced == IF connected THEN {"connected"}
                        ELSE IF browser # "none" THEN {browser} ELSE {}
            o == [obs EXCEPT !.reconnected = @ \/ reused,
                             !.launched = @ \/ launch,
                             !.dropped = IF launch THEN @ \cup replaced ELSE @]
        IN  /\ IF launch
               THEN /\ browser' = "launched"
                    /\ context' = IF thrown
                                   THEN context \/ (connected /\ conn = "noPage")
                                   ELSE TRUE
                    /\ page' = ~thrown
                    /\ restored' = IF thrown THEN 0 ELSE snapshot
                    /\ launches' = launches + 1
                    /\ storageState' = snapshot
                    /\ cdpSession' = IF ws /\ ~thrown THEN launches + 1
                                     ELSE IF failed THEN 0 ELSE cdpSession
               ELSE /\ browser' = IF reused THEN "connected" ELSE browser
                    /\ context' = IF reused THEN TRUE ELSE context
                    /\ page' = IF reused THEN TRUE ELSE page
                    /\ restored' = IF reused THEN 0 ELSE restored
                    /\ UNCHANGED <<launches, store>>
            /\ IF thrown
               THEN /\ Throw(Error("ContextFailed", 0, 0, FALSE), o)
                    /\ cli' = cli
               ELSE /\ obs' = o
                    /\ pc' = IF op.name = "takeScreenshot" THEN "screenshot"
                             ELSE "probe"
                    /\ cli' = IF op.name = "takeScreenshot"
                              THEN [cli EXCEPT !.expired = 0] ELSE cli
                    /\ UNCHANGED <<ret, phase, op, after, result>>
    /\ UNCHANGED <<config, client, mcp, listener, logins>>

\* isSessionValid(): one GET of the "who am I" endpoint; response.ok(), and
\* false when the request throws.
\* A flow that goes on to the login page whatever the probe answered.
AfterProbeLogin(valid) == "login"

\* ensureLoggedIn() after the probe: return when it is valid, else log in.
AfterProbe(valid) == IF valid THEN ret ELSE "login"

IsSessionValid ==
    /\ pc = "probe"
    /\ \E valid \in BOOLEAN :
        /\ pc' = AfterProbe(valid)
        /\ obs' = [obs EXCEPT !.probes = @ + 1, !.lastProbe = valid,
                              !.login = "none", !.flow = NoFlow,
                              !.relogin = IF valid /\ cli.expired = 401
                                          THEN "skipped" ELSE @]
        /\ cli' = IF valid THEN [cli EXCEPT !.expired = 0] ELSE cli
    /\ UNCHANGED <<store, config, client, mcp, listener, memory, logins, launches, ret, phase,
                   op, after, result>>

\* --------------------------------------------------------------- JS values

\* The values a vendor payload is made of, each tagged with its JS type.
Undef == [t |-> "undefined"]
Str(s) == [t |-> "string", v |-> s]
Num(n) == [t |-> "number", v |-> n]
Arr(items) == [t |-> "array", items |-> items]
Obj(fields) == [t |-> "object", f |-> fields]

\* ToBoolean: undefined, 0 and "" are falsy; arrays and objects are truthy,
\* the empty array too.
Truthy(v) ==
    CASE v.t = "undefined" -> FALSE
      [] v.t = "number" -> v.v # 0
      [] v.t = "string" -> v.v # ""
      [] OTHER -> TRUE

\* a || b
Or(a, b) == IF Truthy(a) THEN a ELSE b

\* o.k and o?.k: undefined when o is no object or has no such field.
Get(o, k) == IF o.t = "object" /\ k \in DOMAIN o.f THEN o.f[k] ELSE Undef

\* a?.length
Length(a) == IF a.t = "array" THEN Num(Len(a.items)) ELSE Undef

\* An id passed on as the vendor gave it, a number as a number.
StringRaw(v) == v

\* String(v)
String(v) ==
    CASE v.t = "number" -> Str(ToString(v.v))
      [] v.t = "string" -> v
      [] OTHER -> Str(v.t)

\* ------------------------------------------------------- result normalizer

\* data.objects || data.results || data.data || (Array.isArray(data) ? data : dflt)
ExtractList(data, dflt) ==
    LET named == Or(Or(Get(data, "objects"), Get(data, "results")), Get(data, "data"))
    IN  IF Truthy(named) THEN named
        ELSE IF data.t = "array" THEN data ELSE dflt

\* The mapping of one vendor Zap to a ZapInfo (listZaps and listZapsFromPage).
ZapInfoOf(z) ==
    [id |-> String(Get(z, "id")),
     title |-> Or(Or(Get(z, "title"), Get(z, "name")), Str("Untitled")),
     status |-> Or(Or(Get(z, "status"), Get(z, "state")), Str("unknown")),
     lastRun |-> Or(Or(Get(z, "last_successful_run_date"), Get(z, "last_run_at")),
                    Get(z, "updated_at")),
     stepCount |-> Or(Get(z, "step_count"), Length(Get(z, "steps"))),
     updatedAt |-> Get(z, "updated_at")]

\* The mapping of one vendor run to a ZapRun (viewHistory and viewHistoryFromPage).
ZapRunOf(r) ==
    [id |-> String(Get(r, "id")),
     zapId |-> String(Or(Or(Get(Get(r, "zap"), "id"), Get(r, "zap_id")), Str(""))),
     zapTitle |-> Or(Or(Get(Get(r, "zap"), "title"), Get(r, "zap_title")), Str("")),
     status |-> Or(Get(r, "status"), Str("unknown")),
     startedAt |-> Or(Or(Or(Get(r, "start_time"), Get(r, "started_at")),
                         Get(r, "created_at")), Str("")),
     finishedAt |-> Or(Get(r, "end_time"), Get(r, "finished_at")),
     errorMessage |-> Or(Get(r, "error_message"), Get(Get(r, "error"), "message"))]

\* The mapping of one vendor step (viewError and viewErrorFromPage).
StepOf(s) ==
    [name |-> Or(Or(Or(Get(s, "title"), Get(s, "action_type")), Get(s, "name")),
                 Str("Unknown step")),
     app |-> Or(Or(Get(s, "app"), Get(s, "selected_api")), Str("")),
     status |-> Or(Get(s, "status"), Str("unknown")),
     errorMessage |-> Or(Get(s, "error_message"), Get(Get(s, "error"), "message")),
     inputData |-> Or(Get(s, "input_data"), Get(s, "input")),
     outputData |-> Or(Get(s, "output_data"), Get(s, "output"))]

\* zaps.map(...), runs.map(...), steps.map(...)
MapZaps(q) == [i \in 1..Len(q) |-> ZapInfoOf(q[i])]
\* A mapping that gives the runs last to first.
MapRunsReversed(q) == [i \in 1..Len(q) |-> ZapRunOf(q[Len(q) + 1 - i])]
MapRuns(q) == [i \in 1..Len(q) |-> ZapRunOf(q[i])]
MapSteps(q) == [i \in 1..Len(q) |-> StepOf(q[i])]

\* The mapping of one vendor run detail to a ZapRunDetail.
ZapRunDetailOf(d) ==
    [id |-> String(Get(d, "id")),
     zapId |-> String(Or(Or(Get(Get(d, "zap"), "id"), Get(d, "zap_id")), Str(""))),
     zapTitle |-> Or(Or(Get(Get(d, "zap"), "title"), Get(d, "zap_title")), Str("")),
     status |-> Or(Get(d, "status"), Str("unknown")),
     startedAt |-> Or(Or(Get(d, "start_time"), Get(d, "started_at")), Str("")),
     finishedAt |-> Or(Get(d, "end_time"), Get(d, "finished_at")),
     steps |-> MapSteps(
                  Or(Or(Get(d, "steps"), Get(d, "action_log")), Arr(<<>>)).items)]

\* runs.slice(0, limit)
Slice(q, n) == SubSeq(q, 1, IF Len(q) < n THEN Len(q) ELSE n)

\* ----------------------------------------------------------- login procedure

LoginTexts == {"tfa", "captcha", "both", "none"}

\* What the login page does: the navigation to it succeeds, which of the four
\* e-mail selectors matches first (0 = none), the password field shows, the URL
\* leaves /app/login within 60 s, what the body text holds on timeout, and the
\* URL leaves /app/login within the further 120 s. A field the flow does not
\* get to read is left at its first value.
LoginEnvs ==
    {e \in [gotoOk : BOOLEAN, emailIdx : 0..4, pwFound : BOOLEAN, nav1 : BOOLEAN,
            text : LoginTexts, nav2 : BOOLEAN] :
        /\ ~e.gotoOk => e.emailIdx = 0
        /\ e.emailIdx = 0 => ~e.pwFound
        /\ ~e.pwFound => ~e.nav1
        /\ (e.nav1 \/ ~e.pwFound) => e.text = "none"
        /\ e.text \in {"captcha", "none"} => ~e.nav2}

\* The 60 s wait for the URL to leave /app/login was reached and ran out.
TimedOut(e) == creds /\ e.gotoOk /\ e.emailIdx # 0 /\ e.pwFound /\ ~e.nav1

\* A flow that waits the further 120 s on a two-factor page in every mode.
LoginOutcomeAlwaysWaits(e) ==
    IF TimedOut(e) /\ e.text \in {"tfa", "both"}
    THEN IF e.nav2 THEN "SuccessAfterTwoFactor" ELSE "TwoFactorTimeout"
    ELSE IF ~creds THEN "ConfigurationMissing"
    ELSE IF ~e.gotoOk THEN "NavigationFailed"
    ELSE IF e.emailIdx = 0 THEN "NoEmailField"
    ELSE IF ~e.pwFound THEN "NoPasswordField"
    ELSE IF e.nav1 THEN "Success"
    ELSE IF e.text = "captcha" THEN "CaptchaRequired"
    ELSE "GenericFailure"

\* A flow that fails at once on a two-factor page in every mode.
LoginOutcomeNeverWaits(e) ==
    IF TimedOut(e) /\ e.text \in {"tfa", "both"} THEN "TwoFactorRequired"
    ELSE LoginOutcomeAlwaysWaits(e)

\* A flow that takes a bot challenge in interactive mode for a two-factor page.
LoginOutcomeCaptchaWaits(e) ==
    IF TimedOut(e) /\ e.text = "captcha" /\ debug
    THEN IF e.nav2 THEN "SuccessAfterTwoFactor" ELSE "TwoFactorTimeout"
    ELSE IF TimedOut(e) /\ e.text \in {"tfa", "both"} /\ ~debug THEN "TwoFactorRequired"
    ELSE LoginOutcomeAlwaysWaits(e)

\* A flow that looks for the bot-challenge words before the two-factor words.
LoginOutcomeCaptchaFirst(e) ==
    IF TimedOut(e) /\ e.text = "both" THEN "CaptchaRequired"
    ELSE LoginOutcomeCaptchaWaits(e)

\* The way ensureLoggedIn's login flow ends for one behaviour of the page.
LoginOutcome(e) ==
    IF ~creds THEN "ConfigurationMissing"
    ELSE IF ~e.gotoOk THEN "NavigationFailed"
    ELSE IF e.emailIdx = 0 THEN "NoEmailField"
    ELSE IF ~e.pwFound THEN "NoPasswordField"
    ELSE IF e.nav1 THEN "Success"
    ELSE IF e.text \in {"tfa", "both"}
         THEN IF debug
              THEN IF e.nav2 THEN "SuccessAfterTwoFactor" ELSE "TwoFactorTimeout"
              ELSE "TwoFactorRequired"
    ELSE IF e.text = "captcha" THEN "CaptchaRequired"
    ELSE "GenericFailure"

\* A flow that also saves the snapshot when its 120 s wait has expired.
LoginSuccessOnExpiry == {"Success", "SuccessAfterTwoFactor", "TwoFactorTimeout"}

\* The outcomes after which ensureLoggedIn() calls saveStorageState().
LoginSuccess == {"Success", "SuccessAfterTwoFactor"}

\* The failures whose message names a screenshot file, whose name holds
\* Date.now(): thirteen digits that may include "404".
LoginScreenshotErrors ==
    {"NoEmailField", "NoPasswordField", "TwoFactorTimeout", "TwoFactorRequired",
     "CaptchaRequired", "GenericFailure"}

\* The screenshot a failure of the login flow takes and names in its message.
LoginShot(out) ==
    CASE out = "NoEmailField" -> "zapier-login-error-no-email"
      [] out = "NoPasswordField" -> "zapier-login-error-no-password"
      [] out \in {"TwoFactorTimeout", "TwoFactorRequired"} -> "zapier-2fa"
      [] out = "CaptchaRequired" -> "zapier-captcha"
      [] out = "GenericFailure" -> "zapier-login-failed"
      [] OTHER -> "none"

\* The failures whose message tells the operator to run with --debug.
LoginAdvice(out) ==
    IF out \in {"TwoFactorRequired", "CaptchaRequired"} THEN "--debug" ELSE "none"

\* The failure whose message tells page.url(), the URL the flow is stuck at.
LoginStuckUrl(out) == IF out = "GenericFailure" THEN "page.url()" ELSE "none"

\* The error the login flow throws.
LoginError(out, marker) ==
    Error(out, 0, 0, marker)
        @@ [screenshot |-> LoginShot(out), advice |-> LoginAdvice(out),
            url |-> LoginStuckUrl(out)]

\* The steps of the login flow from the end of its 60 s wait, in the order of
\* the statements: read the body text, take a screenshot, wait the further
\* 120 s (the URL has left /app/login when they end, or has not), save the
\* snapshot, throw.
LoginTail(e) ==
    IF TimedOut(e)
    THEN IF e.text \in {"tfa", "both"}
         THEN <<"text", "screenshot">>
                \o (IF debug
                    THEN <<"wait120">> \o (IF e.nav2 THEN <<"arrived", "save">>
                                                     ELSE <<"expired", "throw">>)
                    ELSE <<"throw">>)
         ELSE <<"text", "screenshot", "throw">>
    ELSE IF LoginOutcome(e) = "Success" THEN <<"save">>
    ELSE IF LoginShot(LoginOutcome(e)) # "none" THEN <<"screenshot", "throw">>
    ELSE <<"throw">>

\* ensureLoggedIn() after an invalid probe: read the credentials, run the
\* login flow, save the snapshot on success, throw otherwise.
Login ==
    /\ pc = "login"
    /\ \E e \in LoginEnvs, stamp404 \in BOOLEAN :
        LET out == LoginOutcome(e)
            o == [obs EXCEPT !.loginRuns = @ + 1, !.login = out,
                             !.flow = [text |-> IF TimedOut(e) THEN e.text ELSE "unread",
                                       tail |-> LoginTail(e)],
                             !.relogin = IF cli.expired = 401 THEN "ran" ELSE @]
        IN  IF out \in LoginSuccess
            THEN /\ logins < MaxLogins
                 /\ SaveStorageState
                 /\ pc' = ret
                 /\ obs' = [o EXCEPT !.saved = @ + 1]
                 /\ UNCHANGED <<ret, phase, op, after, result>>
            ELSE /\ Throw(LoginError(out, stamp404 /\ out \in LoginScreenshotErrors), o)
                 /\ UNCHANGED <<storageState, logins>>
    /\ cli' = [cli EXCEPT !.expired = 0]
    /\ UNCHANGED <<cdpSession, config, client, mcp, listener, memory, launches>>

\* ------------------------------------------------------------- API helpers

\* A response body: its length, and where in it "404" or "Not Found" stands
\* (mlen = 0: nowhere).
MarkerLens == {3, 9}
Bodies ==
    {b \in [len : {0, BodyLimit + 9},
            at : {0, BodyLimit - 3, BodyLimit - 2, BodyLimit},
            mlen : {0} \cup MarkerLens] :
        /\ b.at + b.mlen <= b.len
        /\ b.mlen = 0 => b.at = 0
        /\ b.mlen = 9 => b.at = BodyLimit - 3}

\* The bodies of an answer with that status; the body is read only of an
\* answer that is not ok (response.text() after !response.ok()), and is put
\* into a message only when the status is not 401 or 403.
BodiesOf(status) ==
    IF IsOk(status) \/ SessionExpired(status) THEN {NoBody} ELSE Bodies

\* The body taken whole, with no cut.
SubstringWhole(b, n) == b

\* body.substring(0, n): a marker cut by the end is no marker any more.
Substring(b, n) ==
    [len |-> IF b.len < n THEN b.len ELSE n,
     at |-> IF b.mlen > 0 /\ b.at + b.mlen <= n THEN b.at ELSE 0,
     mlen |-> IF b.mlen > 0 /\ b.at + b.mlen <= n THEN b.mlen ELSE 0]

\* response.statusText()
StatusText(status) ==
    CASE status = 404 -> "Not Found"
      [] status = 401 -> "Unauthorized"
      [] status = 403 -> "Forbidden"
      [] status = 500 -> "Internal Server Error"
      [] OTHER -> "OK"

\* message.includes("404") || message.includes("Not Found"), for the message
\* `API request failed: ${status} ${statusText} — ${body.substring(0, 500)}`.
RequestFailed(status, body) ==
    LET cut == Substring(body, BodyLimit)
    IN  Error("RequestFailed", status, cut.len,
              status = 404 \/ StatusText(status) = "Not Found" \/ cut.mlen > 0)

\* `Authentication failed (${status}). Session cleared — retry to re-login.`
AuthenticationFailed(status) == Error("AuthenticationFailed", status, 0, FALSE)

\* ------------------------------------------------------------ vendor payloads

\* The vendor's lifecycle values and one it may add.
VendorStatuses == {"on", "error", "paused"}

\* Vendor Zaps: the status under either of its names, or under neither.
VendorZaps ==
    {Obj("id" :> Num(7))}
    \cup {Obj(("id" :> Num(7)) @@ ("status" :> Str(v))) : v \in VendorStatuses}
    \cup {Obj(("id" :> Str("7")) @@ ("state" :> Str(v))) : v \in VendorStatuses}

\* Vendor runs.
VendorRuns ==
    {Obj(("id" :> Num(9)) @@ ("zap_id" :> Str("123")) @@ ("status" :> Str("error"))),
     Obj(("id" :> Str("9")) @@ ("zap" :> Obj("id" :> Num(123)))),
     Obj("id" :> Num(9))}

\* Vendor run details.
VendorDetails ==
    {Obj(("id" :> Num(9)) @@ ("status" :> Str("error"))
         @@ ("steps" :> Arr(<<Obj("title" :> Str("Send"))>>))),
     Obj("status" :> Str("halted")),
     Obj("zap_id" :> Str("123"))}

SeqsUpTo(S, n) == UNION {[1..k -> S] : k \in 0..n}

\* The shapes a list answer comes in: a bare array, or an object that wraps
\* the array under one of three names, or an object with none of them.
ListAnswers(S, n) ==
    LET lists == {Arr(q) : q \in SeqsUpTo(S, n)}
    IN  lists
        \cup {Obj(k :> a) : k \in {"objects", "results", "data"}, a \in lists}
        \cup {Obj("count" :> Num(0))}

ListPayloads(S) == ListAnswers(S, MaxItems)

\* ------------------------------------------------------------ public calls

\* view-history's default when no limit is given.
DefaultLimit == 25

\* The limits a caller gives; 0 stands for none given.
Limits == {0, 1}

NoArgs == [limit |-> 0, enable |-> FALSE, id |-> ""]

\* A command handler takes the browser client (getBrowserClient creates it
\* on first use) and calls one public method of it.
Call(name, args, first, back, part) ==
    /\ pc = "idle"
    /\ first = "ensureBrowser" => launches < MaxLaunches
    /\ client' = TRUE
    /\ op' = [name |-> name, limit |-> args.limit, enable |-> args.enable,
              id |-> args.id]
    /\ pc' = first
    /\ ret' = back
    /\ phase' = part
    /\ after' = "idle"
    /\ result' = NoResult
    /\ obs' = NoObs
    /\ cli' = [cli EXCEPT !.fresh = FALSE, !.left = <<0, 0>>,
                          !.ran = @ \cup {"management"}]
    /\ UNCHANGED <<store, config, mcp, listener, memory, logins, launches>>

\* A listZaps() whose request goes out with no ensureLoggedIn() before it.
ListZapsUnprobed == Call("listZaps", NoArgs, "apiGet", "apiGet", "primary")

\* listZaps(): apiGet(API.zaps) first.
ListZaps == Call("listZaps", NoArgs, "ensureBrowser", "apiGet", "primary")

\* viewHistory(options): apiGet(API.zapRuns, params) first.
ViewHistory ==
    \E l \in Limits :
        Call("viewHistory", [NoArgs EXCEPT !.limit = l], "ensureBrowser", "apiGet",
             "primary")

\* viewError(runId): apiGet(API.zapRunDetail(runId)) first.
ViewError == Call("viewError", NoArgs, "ensureBrowser", "apiGet", "primary")

\* The value a read operation makes of a 2xx answer of the internal API.
FromApi(name, data) ==
    CASE name = "listZaps" ->
            [kind |-> "zaps", path |-> "api",
             items |-> MapZaps(ExtractList(data, Arr(<<>>)).items)]
      [] name = "viewHistory" ->
            [kind |-> "runs", path |-> "api",
             items |-> MapRuns(ExtractList(data, Arr(<<>>)).items)]
      [] OTHER ->
            [kind |-> "detail", path |-> "api", items |-> <<ZapRunDetailOf(data)>>]

ApiPayloads(name) ==
    CASE name = "listZaps" -> ListPayloads(VendorZaps)
      [] name = "viewHistory" -> ListPayloads(VendorRuns)
      [] OTHER -> VendorDetails

\* apiGet() after ensureLoggedIn(): the GET and the classification of its
\* answer. 2xx: parse and map. 401/403: clear the session files and throw.
\* Any other status: throw with the status and the start of the body.
ApiGet ==
    /\ pc = "apiGet"
    /\ \E status \in Statuses :
      \E body \in BodiesOf(status) :
        LET o == [obs EXCEPT !.requests = @ + 1, !.status = status]
            f == [o EXCEPT !.atFail = store]
        IN  IF IsOk(status)
            THEN /\ \E data \in ApiPayloads(op.name) : Return(FromApi(op.name, data), o)
                 /\ UNCHANGED <<store, cli>>
            ELSE IF SessionExpired(status)
            THEN /\ CleanupSessionFiles
                 /\ Throw(AuthenticationFailed(status), [f EXCEPT !.cleared = TRUE])
                 /\ cli' = [cli EXCEPT !.expired = status]
            ELSE /\ Throw(RequestFailed(status, body),
                          [f EXCEPT !.body = IF status = 404 THEN NoBody ELSE body,
                                    !.absent = RequestFailed(status, body).marker])
                 /\ UNCHANGED <<store, cli>>
    /\ UNCHANGED <<config, client, mcp, listener, memory, logins, launches>>

\* What the page's own traffic gives the listener within 15 s: one answer
\* that passes the URL and status test, or none.
NoAnswer == [t |-> "none"]

\* The answer holds a list under one of the three names, or is one, and the
\* list is not empty: json.objects || json.results || json.data ||
\* (Array.isArray(json) ? json : null), then zaps && zaps.length > 0.
HoldsList(json) ==
    LET zaps == ExtractList(json, Undef)
    IN  zaps.t = "array" /\ Len(zaps.items) > 0

\* A listener that resolves with the answer itself when it holds no list.
InterceptedOrRaw(json) ==
    IF HoldsList(json) THEN ExtractList(json, Undef).items ELSE <<json>>

\* What the listener's promise resolves with: the list of the answer, or the
\* empty list when the 15 s timer fires first.
Intercepted(json) ==
    IF HoldsList(json) THEN ExtractList(json, Undef).items ELSE <<>>

\* What the read fallback did: its navigation, and what its listener gave.
PageObs(gotoOk, json) ==
    [obs EXCEPT !.nav = IF gotoOk THEN "ok" ELSE "failed",
                !.listen = IF HoldsList(json) THEN "answer" ELSE "timeout"]

\* The detail viewErrorFromPage() makes of the page text when no answer came.
PageTextDetail ==
    [id |-> Str("runId"), zapId |-> Str(""), zapTitle |-> Str(""),
     status |-> Str("unknown"), startedAt |-> Str(""), finishedAt |-> Undef,
     steps |-> <<[name |-> Str("Page content"), app |-> Str(""),
                  status |-> Str("error"), errorMessage |-> Str("text"),
                  inputData |-> Undef, outputData |-> Undef]>>]

\* The value a read fallback makes of what its listener gave: the mapped
\* list, for viewHistory at most `limit || 25` of it; for viewError the detail
\* of the answer that has an id or a status, else the page text.
FromPage(name, json, limit) ==
    CASE name = "listZaps" ->
            [kind |-> "zaps", path |-> "page", items |-> MapZaps(Intercepted(json))]
      [] name = "viewHistory" ->
            [kind |-> "runs", path |-> "page",
             items |-> MapRuns(Slice(Intercepted(json),
                                     IF limit # 0 THEN limit ELSE DefaultLimit))]
      [] OTHER ->
            [kind |-> "detail", path |-> "page",
             items |-> <<IF Truthy(Or(Get(json, "id"), Get(json, "status")))
                         THEN ZapRunDetailOf(json) ELSE PageTextDetail>>]

\* A listZapsFromPage() whose promise has no timer: with no answer caught it
\* stays pending, and the call waits for it with nothing left to wake it.
ListZapsFromPageNoTimer ==
    /\ pc = "fallbackNav"
    /\ op.name = "listZaps"
    /\ \E gotoOk \in BOOLEAN, json \in ListPayloads(VendorZaps) \cup {NoAnswer} :
        IF ~gotoOk
        THEN Throw(Error("NavigationFailed", 0, 0, FALSE), PageObs(gotoOk, json))
        ELSE IF json = NoAnswer
        THEN /\ pc' = "pending"
             /\ UNCHANGED <<ret, phase, op, after, result, obs>>
        ELSE Return(FromPage(op.name, json, op.limit), PageObs(gotoOk, json))
    /\ UNCHANGED <<store, config, client, mcp, listener, memory, logins, launches, cli>>

\* listZapsFromPage() after ensureLoggedIn(): listen, navigate, take the
\* answer with a non-empty list or the empty list after the timeout, map it.
ListZapsFromPage ==
    /\ pc = "fallbackNav"
    /\ op.name = "listZaps"
    /\ \E gotoOk \in BOOLEAN, json \in ListPayloads(VendorZaps) \cup {NoAnswer} :
        IF gotoOk
        THEN Return(FromPage(op.name, json, op.limit), PageObs(gotoOk, json))
        ELSE Throw(Error("NavigationFailed", 0, 0, FALSE), PageObs(gotoOk, json))
    /\ UNCHANGED <<store, config, client, mcp, listener, memory, logins, launches, cli>>

\* viewHistoryFromPage(options) after ensureLoggedIn(): as above, and at most
\* `limit || 25` runs.
ViewHistoryFromPage ==
    /\ pc = "fallbackNav"
    /\ op.name = "viewHistory"
    /\ \E gotoOk \in BOOLEAN, json \in ListPayloads(VendorRuns) \cup {NoAnswer} :
        IF gotoOk
        THEN Return(FromPage(op.name, json, op.limit), PageObs(gotoOk, json))
        ELSE Throw(Error("NavigationFailed", 0, 0, FALSE), PageObs(gotoOk, json))
    /\ UNCHANGED <<store, config, client, mcp, listener, memory, logins, launches, cli>>

\* viewErrorFromPage(runId) after ensureLoggedIn(): take the answer that has
\* an id or a status; with none, a screenshot and the page text.
ViewErrorFromPage ==
    /\ pc = "fallbackNav"
    /\ op.name = "viewError"
    /\ \E gotoOk \in BOOLEAN, json \in VendorDetails \cup {NoAnswer} :
        IF gotoOk
        THEN Return(FromPage(op.name, json, op.limit), obs)
        ELSE Throw(Error("NavigationFailed", 0, 0, FALSE), obs)
    /\ UNCHANGED <<store, config, client, mcp, listener, memory, logins, launches, cli>>

\* The result of a mutating operation: { success, message, screenshot? }.
Action(success, via, message, screenshot) ==
    [kind |-> "action", success |-> success, via |-> via, message |-> message,
     screenshot |-> screenshot]

\* The ordered candidates of the UI part: five selectors of the Replay button;
\* three selectors of the Zap's toggle and then the switch of the row whose
\* content holds the id.
Candidates(name) == IF name = "replayRun" THEN 1..5 ELSE 1..4

\* The candidates a page may have (and show), among them none at all.
MatchSets(name) ==
    IF name = "replayRun" THEN {{}, {2, 4}, {5}}
    ELSE {{}, {2, 3}, {4}}

\* A search that tries the candidates from the last to the first.
ClickLast(i, n, matches) ==
    IF matches = {} THEN 0 ELSE CHOOSE k \in matches : \A j \in matches : j <= k

\* for (const selector of selectors) { if (found) { click; break; } }: the
\* candidate clicked, from candidate i on; 0 when none matches.
RECURSIVE ClickFirst(_, _, _)
ClickFirst(i, n, matches) ==
    IF i > n THEN 0
    ELSE IF i \in matches THEN i
    ELSE ClickFirst(i + 1, n, matches)

\* A UI part that looks for the confirmation button before it has clicked.
UiStepsConfirmFirst(hit, dialog) ==
    <<"goto">> \o (IF dialog THEN <<"confirm">> ELSE <<>>)
               \o (IF hit = 0 THEN <<"screenshot", "return">>
                   ELSE <<"click", "screenshot", "screenshot", "return">>)

\* The steps of the UI part after a navigation that succeeded, in the order
\* of the statements.
UiSteps(hit, dialog) ==
    IF hit = 0
    THEN <<"goto", "screenshot", "return">>
    ELSE <<"goto", "click", "screenshot">>
            \o (IF dialog THEN <<"confirm">> ELSE <<>>)
            \o <<"screenshot", "return">>

\* The ids the callers pass.
RunId == "r1"
ZapIds == {"55"}

\* The messages of replayRun's results.
ReplayMessage(id, outcome) ==
    CASE outcome = "api" -> "Run " \o id \o " replayed successfully via API."
      [] outcome = "ui" -> "Run " \o id \o " replay initiated via UI."
      [] OTHER -> "Could not find Replay button for run " \o id \o ". See screenshot."

\* A message that says what the Zap was, not what it has become.
ToggleMessageInverted(id, enable, outcome) ==
    CASE outcome = "api" -> "Zap " \o id \o (IF enable THEN " disabled" ELSE " enabled") \o " via API."
      [] outcome = "ui" -> "Zap " \o id \o (IF enable THEN " disabled" ELSE " enabled") \o " via UI."
      [] OTHER -> "Could not find toggle for Zap " \o id \o ". See screenshot."

\* The messages of toggleZap's results.
ToggleMessage(id, enable, outcome) ==
    CASE outcome = "api" -> "Zap " \o id \o (IF enable THEN " enabled" ELSE " disabled") \o " via API."
      [] outcome = "ui" -> "Zap " \o id \o (IF enable THEN " enabled" ELSE " disabled") \o " via UI."
      [] OTHER -> "Could not find toggle for Zap " \o id \o ". See screenshot."

\* The body of toggleZap's PATCH: { status: enable ? "on" : "off" }.
PatchData(enable) == [status |-> IF enable THEN "on" ELSE "off"]

\* A UI part that clicks a confirmation button whatever it has found.
UiObsAlwaysConfirms(hit, matches, dialog) ==
    [obs EXCEPT !.nav = "ok",
                !.clicked = hit # 0,
                !.confirmed = TRUE,
                !.ui = [matches |-> matches, control |-> hit,
                        dialog |-> hit # 0 /\ dialog,
                        steps |-> UiSteps(hit, dialog)]]

\* What the UI part did on a page it has reached.
UiObs(hit, matches, dialog) ==
    [obs EXCEPT !.nav = "ok",
                !.clicked = hit # 0,
                !.confirmed = hit # 0 /\ dialog,
                !.ui = [matches |-> matches, control |-> hit,
                        dialog |-> hit # 0 /\ dialog,
                        steps |-> UiSteps(hit, dialog)]]

\* replayRun(runId): ensureLoggedIn() first.
ReplayRun == Call("replayRun", [NoArgs EXCEPT !.id = RunId], "ensureBrowser",
                  "replayPost", "pre")

\* replayRun's try block: one POST; a 2xx answer ends the call, any other
\* answer and any thrown error lead to the UI (0 stands for a thrown error).
ReplayRunPost ==
    /\ pc = "replayPost"
    /\ \E status \in Statuses \cup {0} :
        LET o == [obs EXCEPT !.attempts = @ + 1, !.requests = @ + 1,
                             !.status = status]
        IN  IF IsOk(status)
            THEN Return(Action(TRUE, "api", ReplayMessage(op.id, "api"), "none"), o)
            ELSE /\ pc' = "replayUI"
                 /\ phase' = "ui"
                 /\ obs' = o
                 /\ UNCHANGED <<ret, op, after, result>>
    /\ UNCHANGED <<store, config, client, mcp, listener, memory, logins, launches, cli>>

\* replayRun's UI part: navigate, click the first of the five candidates that
\* is there and visible, screenshot; with none clicked return the failure that
\* names that screenshot; else click a visible confirmation button, take the
\* second screenshot and return the success that names it.
ReplayRunUI ==
    /\ pc = "replayUI"
    /\ \E gotoOk \in BOOLEAN, matches \in MatchSets(op.name), dialog \in BOOLEAN :
        LET hit == ClickFirst(1, 5, matches)
            o == UiObs(hit, matches, dialog)
        IN  IF ~gotoOk
            THEN Throw(Error("NavigationFailed", 0, 0, FALSE),
                       [obs EXCEPT !.nav = "failed"])
            ELSE IF hit = 0
            THEN Return(Action(FALSE, "ui", ReplayMessage(op.id, "none"),
                               "zapier-replay"), o)
            ELSE Return(Action(TRUE, "ui", ReplayMessage(op.id, "ui"),
                               "zapier-replay-confirm"), o)
    /\ UNCHANGED <<store, config, client, mcp, listener, memory, logins, launches, cli>>

\* toggleZap(zapId, enable): ensureLoggedIn() first.
ToggleZap ==
    \E e \in BOOLEAN, id \in ZapIds :
        Call("toggleZap", [NoArgs EXCEPT !.enable = e, !.id = id], "ensureBrowser",
             "apiPatch", "pre")

\* toggleZap's try block calls apiPatch(), which calls ensureLoggedIn() again.
ToggleZapTry ==
    /\ pc = "apiPatch"
    /\ pc' = "ensureBrowser"
    /\ ret' = "patchRequest"
    /\ phase' = "primary"
    /\ obs' = [obs EXCEPT !.attempts = @ + 1]
    /\ UNCHANGED <<store, config, client, mcp, listener, memory, logins, launches, op, after,
                   result, cli>>

\* apiPatch() after ensureLoggedIn(): the PATCH and the classification of its
\* answer, as in apiGet(); a 2xx answer is parsed as JSON, which may throw.
\* toggleZap returns when apiPatch() returns.
ApiPatch ==
    /\ pc = "patchRequest"
    /\ \E status \in Statuses, jsonOk \in BOOLEAN :
      \E body \in BodiesOf(status) :
        LET o == [obs EXCEPT !.requests = @ + 1, !.status = status,
                             !.patch = PatchData(op.enable).status]
            f == [o EXCEPT !.atFail = store]
        IN  IF IsOk(status)
            THEN /\ IF jsonOk
                    THEN Return(Action(TRUE, "api",
                                       ToggleMessage(op.id, op.enable, "api"), "none"), o)
                    ELSE Throw(Error("SyntaxError", status, 0, FALSE), o)
                 /\ UNCHANGED <<store, cli>>
            ELSE IF SessionExpired(status)
            THEN /\ CleanupSessionFiles
                 /\ Throw(AuthenticationFailed(status), [f EXCEPT !.cleared = TRUE])
                 /\ cli' = [cli EXCEPT !.expired = status]
            ELSE /\ Throw(RequestFailed(status, body), f)
                 /\ UNCHANGED <<store, cli>>
    /\ UNCHANGED <<config, client, mcp, listener, memory, logins, launches>>

\* toggleZap's UI part: navigate, click the first of the three selectors that
\* matches, else the switch of the row that holds the id, screenshot; with
\* none clicked return the failure that names that screenshot; else click a
\* visible confirmation button, take the second screenshot and return the
\* success that names it.
ToggleZapUI ==
    /\ pc = "toggleUI"
    /\ \E gotoOk \in BOOLEAN, matches \in MatchSets(op.name), dialog \in BOOLEAN :
        LET hit == ClickFirst(1, 4, matches)
            o == UiObs(hit, matches, dialog)
        IN  IF ~gotoOk
            THEN Throw(Error("NavigationFailed", 0, 0, FALSE),
                       [obs EXCEPT !.nav = "failed"])
            ELSE IF hit = 0
            THEN Return(Action(FALSE, "ui", ToggleMessage(op.id, op.enable, "none"),
                               "zapier-toggle"), o)
            ELSE Return(Action(TRUE, "ui", ToggleMessage(op.id, op.enable, "ui"),
                               "zapier-toggle-confirm"), o)
    /\ UNCHANGED <<store, config, client, mcp, listener, memory, logins, launches, cli>>

\* discoverEndpoints(): ensureLoggedIn() first.
DiscoverEndpoints == Call("discoverEndpoints", NoArgs, "ensureBrowser", "discover", "pre")

\* discoverEndpoints() after ensureLoggedIn(): two navigations, a screenshot.
DiscoverPages ==
    /\ pc = "discover"
    /\ \E gotoOk \in BOOLEAN :
        IF gotoOk
        THEN Return([kind |-> "discovered"], obs)
        ELSE Throw(Error("NavigationFailed", 0, 0, FALSE), obs)
    /\ UNCHANGED <<store, config, client, mcp, listener, memory, logins, launches, cli>>

\* takeScreenshot(options): ensureBrowser() first, no session check.
TakeScreenshot == Call("takeScreenshot", NoArgs, "ensureBrowser", "screenshot", "pre")

\* takeScreenshot() after ensureBrowser().
Screenshot ==
    /\ pc = "screenshot"
    /\ Return([kind |-> "screenshot"], obs)
    /\ UNCHANGED <<store, config, client, mcp, listener, memory, logins, launches, cli>>

\* The result of reset(): { success, message }.
ResetResult(success) == [kind |-> "reset", success |-> success]

\* reset(): inside one try block, close the browser when one is held and
\* forget it, then remove the session files; an error of close() is caught
\* and reported, and nothing after it in the block runs.
ResetBody ==
    \E closeOk \in BOOLEAN :
        IF browser # "none" /\ ~closeOk
        THEN /\ Return(ResetResult(FALSE), [obs EXCEPT !.closeFailed = TRUE])
             /\ UNCHANGED <<store, memory>>
        ELSE /\ browser' = "none"
             /\ context' = FALSE
             /\ page' = FALSE
             /\ restored' = 0
             /\ CleanupSessionFiles
             /\ Return(ResetResult(TRUE), [obs EXCEPT !.cleared = TRUE])

\* What is known when a reset() starts: whether the call before it was a
\* reset() too, and what that one returned.
ResetObs ==
    [NoObs EXCEPT !.second = (op.name = "reset"),
                  !.firstOk = (op.name = "reset" /\ result.success)]

\* The reset command, and reset() as called by another caller of the client.
Reset ==
    /\ pc = "idle"
    /\ client' = TRUE
    /\ op' = [NoArgs EXCEPT !.limit = 0] @@ [name |-> "reset"]
    /\ pc' = "reset"
    /\ after' = "idle"
    /\ result' = NoResult
    /\ obs' = ResetObs
    /\ cli' = [cli EXCEPT !.fresh = FALSE, !.left = <<0, 0>>,
                          !.ran = @ \cup {"management"}]
    /\ UNCHANGED <<store, config, mcp, listener, memory, logins, launches, ret,
                   phase>>

ResetRun ==
    /\ pc = "reset"
    /\ ResetBody
    /\ UNCHANGED <<config, client, mcp, listener, logins, launches, cli>>

\* ----------------------------------------------------------------- the CLI

\* The MCP commands: list-tools, list-actions, execute.
McpOps == {"listTools", "listActions", "execute"}

\* A handler of an MCP command that asks for the browser client as well.
McpCommandViaBrowser(name) ==
    /\ pc = "idle"
    /\ op' = [NoArgs EXCEPT !.limit = 0] @@ [name |-> name]
    /\ pc' = "mcp"
    /\ after' = "idle"
    /\ result' = NoResult
    /\ obs' = NoObs
    /\ client' = TRUE
    /\ cli' = [cli EXCEPT !.fresh = FALSE, !.left = <<0, 0>>, !.ran = @ \cup {"mcp"}]
    /\ UNCHANGED <<store, config, mcp, listener, memory, logins, launches, ret,
                   phase>>

\* The handler of an MCP command starts.
McpCommand(name) ==
    /\ pc = "idle"
    /\ op' = [NoArgs EXCEPT !.limit = 0] @@ [name |-> name]
    /\ pc' = "mcp"
    /\ after' = "idle"
    /\ result' = NoResult
    /\ obs' = NoObs
    /\ cli' = [cli EXCEPT !.fresh = FALSE, !.left = <<0, 0>>, !.ran = @ \cup {"mcp"}]
    /\ UNCHANGED <<store, config, client, mcp, listener, memory, logins, launches, ret, phase>>

ListTools == McpCommand("listTools")
ListActions == McpCommand("listActions")
Execute == McpCommand("execute")

\* How the handler of an MCP command may go on: --params is no JSON (execute
\* only, before any client is asked for); the constructor of the MCP client
\* throws (only when none is set yet); connect() throws (only while not
\* connected); the remote call throws; all is well.
McpOutcomes ==
    (IF op.name = "execute" THEN {"badParams"} ELSE {})
    \cup (IF mcp = "none" THEN {"noConfig"} ELSE {})
    \cup (IF mcp # "connected" THEN {"connectFailed"} ELSE {})
    \cup {"callFailed", "ok"}

\* getMcpClient() and the remote call: the client is created and connected
\* on first use, then connected again by the call itself while it is not.
McpRun ==
    /\ pc = "mcp"
    /\ \E out \in McpOutcomes :
        /\ mcp' = CASE out \in {"badParams", "noConfig"} -> mcp
                     [] out = "connectFailed" -> "created"
                     [] OTHER -> "connected"
        /\ IF out = "ok"
           THEN Return([kind |-> "mcp"], obs)
           ELSE Return(Error(out, 0, 0, FALSE), obs)
    /\ UNCHANGED <<store, config, client, listener, memory, logins, launches, cli>>

\* ZapierCombinedClient.disconnect(), run when the command has ended:
\* disconnect() of the MCP client when one was created, which closes it when
\* it is connected and may throw; then reset() of the browser client when one
\* was created. The store as the command left it is noted.
Disconnect ==
    /\ pc = "idle"
    /\ cli' = [cli EXCEPT !.left = store]
    /\ \E closeOk \in (IF mcp = "connected" THEN BOOLEAN ELSE {TRUE}) :
        /\ mcp' = IF mcp = "connected" /\ closeOk THEN "created" ELSE mcp
        /\ IF client /\ closeOk
           THEN /\ op' = [NoArgs EXCEPT !.limit = 0] @@ [name |-> "reset"]
                /\ pc' = "reset"
                /\ after' = "exit"
                /\ result' = NoResult
                /\ obs' = ResetObs
           ELSE /\ pc' = "exit"
                /\ UNCHANGED <<op, after, result, obs>>
    /\ UNCHANGED <<store, config, client, listener, memory, logins, launches, ret,
                   phase>>

\* The invocation ends and the next one starts: a new process holds no client
\* and no browser, and reads --debug from its own arguments.
NextInvocation ==
    /\ pc = "exit"
    /\ pc' = "idle"
    /\ after' = "idle"
    /\ client' = FALSE
    /\ browser' = "none"
    /\ context' = FALSE
    /\ page' = FALSE
    /\ restored' = 0
    /\ debug' \in BOOLEAN
    /\ mcp' = "none"
    /\ cli' = [cli EXCEPT !.fresh = TRUE, !.ran = {}]
    /\ UNCHANGED <<store, creds, listener, logins, launches, ret, phase, op, result,
                   obs>>

\* ------------------------------------------------------------ specification

Init ==
    /\ storageState = 0
    /\ cdpSession = 0
    /\ creds \in BOOLEAN
    /\ debug \in BOOLEAN
    /\ client = FALSE
    /\ mcp = "none"
    /\ listener = NoListener
    /\ browser = "none"
    /\ context = FALSE
    /\ page = FALSE
    /\ restored = 0
    /\ logins = 0
    /\ launches = 0
    /\ pc = "idle"
    /\ ret = "idle"
    /\ phase = "pre"
    /\ op = [NoArgs EXCEPT !.limit = 0] @@ [name |-> "none"]
    /\ after = "idle"
    /\ result = NoResult
    /\ obs = NoObs
    /\ cli = NoCli

Next ==
    \/ ListZaps \/ ViewHistory \/ ViewError
    \/ ReplayRun \/ ToggleZap \/ DiscoverEndpoints \/ TakeScreenshot \/ Reset
    \/ EnsureBrowser \/ IsSessionValid \/ Login
    \/ ApiGet \/ ListZapsFromPage \/ ViewHistoryFromPage \/ ViewErrorFromPage
    \/ ReplayRunPost \/ ReplayRunUI
    \/ ToggleZapTry \/ ApiPatch \/ ToggleZapUI
    \/ DiscoverPages \/ Screenshot \/ ResetRun
    \/ Disconnect \/ NextInvocation

Spec == Init /\ [][Next]_vars

\* ------------------------------------------------ every wait comes to an end

\* The steps of a running call. Each is the continuation of an awaited
\* browser or network operation; the event loop runs it when the wait ends,
\* by an answer or by the wait's timeout.
Progress ==
    \/ EnsureBrowser \/ IsSessionValid \/ Login
    \/ ApiGet \/ ListZapsFromPage \/ ViewHistoryFromPage \/ ViewErrorFromPage
    \/ ReplayRunPost \/ ReplayRunUI
    \/ ToggleZapTry \/ ApiPatch \/ ToggleZapUI
    \/ DiscoverPages \/ Screenshot \/ ResetRun

SpecLive == Init /\ [][Next]_vars /\ WF_vars(Progress)

\* ------------------------------------------------ both command families

\* The combined client with both families of commands, for a configuration
\* that holds no Zapier credentials (the MCP commands read none).
InitCli == Init /\ ~creds

NextCli == Next \/ ListTools \/ ListActions \/ Execute \/ McpRun

SpecCli == InitCli /\ [][NextCli]_vars

\* ------------------------------------------------ session files left behind

\* The session files as an earlier process may have left them: none, or a
\* file that does not hold JSON (a write cut short), for each of the two.
InitFiles ==
    /\ storageState \in {0, Corrupt}
    /\ cdpSession \in {0, Corrupt}
    /\ creds = TRUE
    /\ debug = FALSE
    /\ client = FALSE
    /\ mcp = "none"
    /\ listener = NoListener
    /\ browser = "none"
    /\ context = FALSE
    /\ page = FALSE
    /\ restored = 0
    /\ logins = 0
    /\ launches = 0
    /\ pc = "idle"
    /\ ret = "idle"
    /\ phase = "pre"
    /\ op = [NoArgs EXCEPT !.limit = 0] @@ [name |-> "none"]
    /\ after = "idle"
    /\ result = NoResult
    /\ obs = NoObs
    /\ cli = NoCli

SpecFiles == InitFiles /\ [][Next]_vars

\* ------------------------------------- the fallback's listener, step by step

\* Responses of the page's traffic that pass the listener's URL and status
\* test during one call.
MaxResponses == 2

\* A body that response.json() rejects.
NotJson == [t |-> "text"]

\* The bodies of such responses: a list answer of up to one Zap, or no JSON.
ListenZaps == {Obj("id" :> Num(7)), Obj("id" :> Num(8))}
ListenBodies == ListAnswers(ListenZaps, 1) \cup {NotJson}

\* listZapsFromPage() has come back from ensureLoggedIn(): the call of
\* listZaps() launched the browser, was answered 404 by the internal API and
\* found the session valid again.
ListenStart ==
    /\ storageState = 0
    /\ cdpSession = 1
    /\ creds = TRUE
    /\ debug = FALSE
    /\ client = TRUE
    /\ mcp = "none"
    /\ browser = "launched"
    /\ context = TRUE
    /\ page = TRUE
    /\ restored = 0
    /\ logins = 0
    /\ launches = 1
    /\ pc = "fallbackNav"
    /\ ret = "fallbackNav"
    /\ phase = "fallback"
    /\ op = [NoArgs EXCEPT !.limit = 0] @@ [name |-> "listZaps"]
    /\ after = "idle"
    /\ result = NoResult
    /\ obs = [NoObs EXCEPT !.probes = 2, !.lastProbe = TRUE, !.requests = 1,
                           !.status = 404, !.atFail = <<0, 1>>, !.absent = TRUE,
                           !.fallbacks = 1, !.launched = TRUE]
    /\ cli = [NoCli EXCEPT !.fresh = FALSE, !.ran = {"management"}]

InitListen == ListenStart /\ listener = NoListener

Installed == listener # NoListener

\* new Promise(...): the 15 s timer is armed and the listener is put on the
\* page with page.on("response", listener).
Install ==
    /\ pc = "fallbackNav"
    /\ listener = NoListener
    /\ listener' = [on |-> TRUE, nav |-> "none", arrived |-> <<>>, parsing |-> {},
                    settled |-> "pending", from |-> 0, value |-> <<>>,
                    timer |-> "armed"]
    /\ UNCHANGED <<store, config, client, mcp, memory, logins, launches, control,
                   result, obs, cli>>

\* await page.goto(...): it ends, or it throws and listZapsFromPage() is left
\* there, before page.off() is reached.
Goto ==
    /\ pc = "fallbackNav"
    /\ Installed
    /\ listener.nav = "none"
    /\ \E gotoOk \in BOOLEAN :
        IF gotoOk
        THEN /\ listener' = [listener EXCEPT !.nav = "ok"]
             /\ UNCHANGED <<control, result, obs>>
        ELSE /\ listener' = [listener EXCEPT !.nav = "failed"]
             /\ Throw(Error("NavigationFailed", 0, 0, FALSE),
                      [obs EXCEPT !.nav = "failed"])
    /\ UNCHANGED <<store, config, client, mcp, memory, logins, launches, cli>>

\* A response that passes the URL and status test reaches the listener, which
\* starts await response.json().
Respond ==
    /\ Installed
    /\ listener.on
    /\ Len(listener.arrived) < MaxResponses
    /\ \E b \in ListenBodies :
        listener' = [listener EXCEPT !.arrived = Append(@, b),
                                     !.parsing = @ \cup {Len(listener.arrived) + 1}]
    /\ UNCHANGED <<store, config, client, mcp, memory, logins, launches, control,
                   result, obs, cli>>

\* response.json() of the i-th response ends and the listener goes on: with a
\* non-empty list it clears the timer and calls resolve(zaps), which settles
\* the promise if nothing has settled it; a rejection is swallowed.
Parsed ==
    /\ Installed
    /\ \E i \in listener.parsing :
        LET b == listener.arrived[i]
            first == HoldsList(b) /\ listener.settled = "pending"
        IN  listener' = [listener EXCEPT
                !.parsing = @ \ {i},
                !.timer = IF HoldsList(b) /\ @ = "armed" THEN "cleared" ELSE @,
                !.settled = IF first THEN "answer" ELSE @,
                !.from = IF first THEN i ELSE @,
                !.value = IF first THEN ExtractList(b, Undef).items ELSE @]
    /\ UNCHANGED <<store, config, client, mcp, memory, logins, launches, control,
                   result, obs, cli>>

\* The 15 s timer fires: resolve([]).
TimerFires ==
    /\ Installed
    /\ listener.timer = "armed"
    /\ listener' = [listener EXCEPT
            !.timer = "fired",
            !.settled = IF @ = "pending" THEN "timeout" ELSE @]
    /\ UNCHANGED <<store, config, client, mcp, memory, logins, launches, control,
                   result, obs, cli>>

\* After goto() and the 5 s wait: await zapsPromise, page.off("response",
\* listener), return the mapped list.
Await ==
    /\ pc = "fallbackNav"
    /\ Installed
    /\ listener.nav = "ok"
    /\ listener.settled # "pending"
    /\ listener' = [listener EXCEPT !.on = FALSE]
    /\ Return([kind |-> "zaps", path |-> "page", items |-> MapZaps(listener.value)],
              [obs EXCEPT !.nav = "ok",
                          !.listen = IF listener.settled = "answer" THEN "answer"
                                     ELSE "timeout"])
    /\ UNCHANGED <<store, config, client, mcp, memory, logins, launches, cli>>

NextListen == Install \/ Goto \/ Respond \/ Parsed \/ TimerFires \/ Await

SpecListen == InitListen /\ [][NextListen]_vars

\* --------------------------------------------- the login flow, step by step

\* The states of the login flow, in the order of the statements.
LoginOrder ==
    <<"NavigatingToLogin", "FillingEmail", "AwaitingPasswordStep", "FillingPassword",
      "Submitting">>

\* emailSelectors, in list order.
EmailSelectors ==
    <<"input[name=email]", "input[type=email]", "input[id=email]",
      "input[placeholder*=email]">>

\* One statement of the flow: the state it belongs to, what it does, to what.
LoginStep(at, act, arg) == [at |-> at, act |-> act, arg |-> arg]

\* A loop over the e-mail selectors that has no break.
EmailTriesAll(hit) ==
    [i \in 1..4 |-> LoginStep("FillingEmail", "waitForSelector", EmailSelectors[i])]

\* for (const selector of emailSelectors): waitForSelector(selector) for each
\* of the four in list order, up to the first that gives a field.
EmailTries(hit) ==
    [i \in 1..(IF hit = 0 THEN 4 ELSE hit) |->
        LoginStep("FillingEmail", "waitForSelector", EmailSelectors[i])]

\* The statements of LoginTail, each in the state it is reached from.
RECURSIVE TailSteps(_, _)
TailSteps(at, tail) ==
    IF tail = <<>> THEN <<>>
    ELSE <<LoginStep(at, Head(tail), "")>> \o TailSteps(at, Tail(tail))

\* The login flow of ensureLoggedIn() for one behaviour of the page, where
\* `present` are the e-mail selectors that match: its statements in order.
LoginSteps(e, present) ==
    LET hit == ClickFirst(1, 4, present)
        nav == <<LoginStep("NavigatingToLogin", "goto", "")>>
        email == nav \o <<LoginStep("NavigatingToLogin", "screenshot", "")>>
                     \o EmailTries(hit)
        pw == email \o <<LoginStep("FillingEmail", "fill", "email"),
                         LoginStep("AwaitingPasswordStep", "continue", ""),
                         LoginStep("AwaitingPasswordStep", "waitForSelector",
                                   "password")>>
        sub == pw \o <<LoginStep("FillingPassword", "fill", "password"),
                       LoginStep("Submitting", "submit", ""),
                       LoginStep("Submitting", "waitForURL", "")>>
    IN  IF ~creds THEN <<LoginStep("NavigatingToLogin", "throw", "")>>
        ELSE IF ~e.gotoOk THEN nav \o <<LoginStep("NavigatingToLogin", "throw", "")>>
        ELSE IF hit = 0 THEN email \o TailSteps("FillingEmail", LoginTail(e))
        ELSE IF ~e.pwFound THEN pw \o TailSteps("AwaitingPasswordStep", LoginTail(e))
        ELSE sub \o TailSteps("Submitting", LoginTail(e))

\* The behaviours of the login page, with the e-mail selectors that match.
LoginInputs ==
    {i \in [name : {"login"}, attr : {"login"}, env : LoginEnvs,
            present : SUBSET (1..4)] :
        i.env.emailIdx = ClickFirst(1, 4, i.present)}

\* One run of the login flow on a page that behaves as given.
RunLogin ==
    /\ pc = "login"
    /\ result = NoResult
    /\ result' = [kind |-> "login", outcome |-> LoginOutcome(op.env),
                  steps |-> LoginSteps(op.env, op.present),
                  error |-> IF LoginOutcome(op.env) \in LoginSuccess THEN NoResult
                            ELSE LoginError(LoginOutcome(op.env), FALSE)]
    /\ pc' = "idle"
    /\ UNCHANGED <<store, config, client, mcp, listener, memory, logins, launches, ret,
                   phase, op, after, obs, cli>>

InitLogin ==
    /\ storageState = 0
    /\ cdpSession = 0
    /\ creds \in BOOLEAN
    /\ debug \in BOOLEAN
    /\ client = TRUE
    /\ mcp = "none"
    /\ listener = NoListener
    /\ browser = "launched"
    /\ context = TRUE
    /\ page = TRUE
    /\ restored = 0
    /\ logins = 0
    /\ launches = 1
    /\ pc = "login"
    /\ ret = "apiGet"
    /\ phase = "primary"
    /\ op \in LoginInputs
    /\ after = "idle"
    /\ result = NoResult
    /\ obs = [NoObs EXCEPT !.probes = 1, !.launched = TRUE]
    /\ cli = [NoCli EXCEPT !.fresh = FALSE, !.ran = {"management"}]

NextLogin == RunLogin

SpecLogin == InitLogin /\ [][NextLogin]_vars

\* ----------------------------------------------------- normalizer on its own

\* The vendor field names each operation reads one attribute of its output
\* from ("error.message" and "zap.id" are fields of a nested object, "steps"
\* gives the attribute by its length).
Synonyms(name) ==
    CASE name = "listZaps" ->
            [title |-> {"title", "name"},
             status |-> {"status", "state"},
             stepCount |-> {"step_count", "steps"}]
      [] name = "viewHistory" ->
            [startedAt |-> {"start_time", "started_at", "created_at"},
             finishedAt |-> {"end_time", "finished_at"},
             errorMessage |-> {"error_message", "error.message"},
             zapId |-> {"zap.id", "zap_id"}]
      [] OTHER ->
            [startedAt |-> {"start_time", "started_at"},
             finishedAt |-> {"end_time", "finished_at"},
             zapId |-> {"zap.id", "zap_id"}]

\* The values an attribute is given: a count, an id as a number or a string,
\* a text; the falsy ones among them.
AttrValues(attr) ==
    CASE attr = "stepCount" -> {Num(0), Num(1), Num(2)}
      [] attr = "zapId" -> {Num(0), Num(5), Str(""), Str("5")}
      [] OTHER -> {Str(""), Str("x"), Str("y")}

\* One vendor object that carries value v under the field name syn.
Carry(syn, v) ==
    Obj(("id" :> Num(7))
        @@ CASE syn = "steps" ->
                    "steps" :> Arr([i \in 1..v.v |-> Obj("title" :> Str("Send"))])
             [] syn = "error.message" -> "error" :> Obj("message" :> v)
             [] syn = "zap.id" -> "zap" :> Obj("id" :> v)
             [] OTHER -> syn :> v)

\* The 2xx answer an operation gets with that one object in it.
Answer(name, o) == IF name = "viewError" THEN o ELSE Obj("results" :> Arr(<<o>>))

\* Two answers that carry one value under two names of one attribute.
NormInputs ==
    UNION {UNION {{[name |-> n, attr |-> a, value |-> v,
                    first |-> Answer(n, Carry(p[1], v)),
                    second |-> Answer(n, Carry(p[2], v))] :
                        v \in AttrValues(a),
                        p \in {q \in Synonyms(n)[a] \X Synonyms(n)[a] : q[1] # q[2]}} :
                   a \in DOMAIN Synonyms(n)} : n \in ReadOps}

\* One answer given to a read operation on one of its paths: a 2xx answer of
\* the internal API, or what the page's traffic gives the fallback's listener.
ListInputs ==
    {[name |-> "listZaps", attr |-> "list", path |-> p, data |-> d, limit |-> 0] :
        p \in {"api", "page"}, d \in ListAnswers(VendorZaps, MaxListed)}
    \cup {[name |-> "viewHistory", attr |-> "list", path |-> p, data |-> d, limit |-> l] :
        p \in {"api", "page"}, d \in ListAnswers(VendorRuns, MaxListed), l \in Limits}
    \cup {[name |-> "viewError", attr |-> "list", path |-> p, data |-> d, limit |-> 0] :
        p \in {"api", "page"}, d \in VendorDetails}

\* The mapping of a read operation applied to one answer, on the path it
\* came by.
NormalizeList ==
    /\ pc = "idle"
    /\ result = NoResult
    /\ op.attr = "list"
    /\ result' = IF op.path = "api" THEN FromApi(op.name, op.data)
                  ELSE FromPage(op.name, op.data, op.limit)
    /\ UNCHANGED <<store, config, client, mcp, listener, memory, logins, launches, pc, ret,
                   phase, op, after, obs, cli>>

\* The mapping of a read operation applied to both answers.
Normalize ==
    /\ pc = "idle"
    /\ result = NoResult
    /\ op.attr # "list"
    /\ result' = [kind |-> "pair",
                  first |-> FromApi(op.name, op.first).items[1][op.attr],
                  second |-> FromApi(op.name, op.second).items[1][op.attr]]
    /\ UNCHANGED <<store, config, client, mcp, listener, memory, logins, launches, pc, ret,
                   phase, op, after, obs, cli>>

InitNorm ==
    /\ storageState = 0
    /\ cdpSession = 0
    /\ creds = TRUE
    /\ debug = FALSE
    /\ client = TRUE
    /\ mcp = "none"
    /\ listener = NoListener
    /\ browser = "none"
    /\ context = FALSE
    /\ page = FALSE
    /\ restored = 0
    /\ logins = 0
    /\ launches = 0
    /\ pc = "idle"
    /\ ret = "idle"
    /\ phase = "primary"
    /\ op \in NormInputs \cup ListInputs
    /\ after = "idle"
    /\ result = NoResult
    /\ obs = NoObs
    /\ cli = NoCli

NextNorm == Normalize \/ NormalizeList

SpecNorm == InitNorm /\ [][NextNorm]_vars

\* ------------------------------------------------------------------ claims

\* The call has ended: its result or its error is with the caller.
Done == pc \in {"idle", "exit"} /\ result.kind # "none"

\* The kinds of value the read operations return.
ValueKind(name) ==
    CASE name = "listZaps" -> "zaps"
      [] name = "viewHistory" -> "runs"
      [] OTHER -> "detail"

\* The errors the fallback path itself raises: a login that failed after an
\* invalid probe, a navigation that failed.
FallbackErrors ==
    LoginScreenshotErrors \cup {"ConfigurationMissing", "NavigationFailed"}

\* C1, as stated: once a read operation's primary-path answer has status 404,
\* the fallback path is entered exactly once, and when the call has ended both
\* session artifacts are what they were when the 404 came, whatever the probe
\* of the fallback answers.
C1_AsStated ==
    (op.name \in ReadOps /\ obs.status = 404)
        => /\ obs.fallbacks = 1
           /\ Done => store = obs.atFail

\* C1, amended: once a read operation's primary-path answer has status 404,
\* the fallback path is entered exactly once; the live-process handle stays
\* what it was when the 404 came and the authentication snapshot is never
\* removed; the snapshot stays what it was as well unless the probe of the
\* fallback answers invalid and the login flow then succeeds, and then it is
\* the snapshot that login saved.
C1_FallbackOnceStoreKept ==
    (op.name \in ReadOps /\ obs.status = 404)
        => /\ obs.fallbacks = 1
           /\ ~obs.cleared
           /\ cdpSession = obs.atFail[2]
           /\ \/ storageState = obs.atFail[1]
              \/ /\ phase = "fallback"
                 /\ ~obs.lastProbe
                 /\ obs.login \in LoginSuccess
                 /\ storageState = logins
                 /\ storageState > obs.atFail[1]

\* C1, witness: a list_zaps whose primary answer was 404 has returned the
\* page's Zaps, with the snapshot and the handle that were on file at the 404.
C1_Witness ==
    /\ Done
    /\ op.name = "listZaps"
    /\ obs.status = 404
    /\ obs.fallbacks = 1
    /\ result.kind = "zaps"
    /\ result.path = "page"
    /\ obs.atFail[1] # 0
    /\ obs.atFail[2] # 0
    /\ store = obs.atFail

\* C2, as stated: when a read operation's primary-path answer is a 404 or
\* reads as "not found", the call ends with a value of the operation's type,
\* never with an error, and the session artifacts are not cleared.
C2_AsStated ==
    (op.name \in ReadOps /\ obs.absent /\ Done)
        => /\ result.kind = ValueKind(op.name)
           /\ ~obs.cleared

\* C2, amended: when a read operation's primary-path answer is a 404 or reads
\* as "not found", that request failure is never what the caller gets: the
\* call enters the fallback path, the session artifacts are not cleared, and
\* the call ends with a value of the operation's type that the page gave, or
\* with an error of the fallback path itself (a login that failed after an
\* invalid probe, a navigation that failed).
C2_AbsenceNotSurfaced ==
    (op.name \in ReadOps /\ obs.absent)
        => /\ obs.fallbacks = 1
           /\ phase = "fallback"
           /\ ~obs.cleared
           /\ obs.atFail[1] # 0 => storageState # 0
           /\ obs.atFail[2] # 0 => cdpSession # 0
           /\ Done =>
                \/ result.kind = ValueKind(op.name) /\ result.path = "page"
                \/ result.kind = "error" /\ result.error \in FallbackErrors

\* C2, witness: a view_history whose primary answer was a 500 with "Not Found"
\* in its body has returned the page's runs, with a snapshot still on file.
C2_Witness ==
    /\ Done
    /\ op.name = "viewHistory"
    /\ obs.status = 500
    /\ obs.absent
    /\ result.kind = "runs"
    /\ result.path = "page"
    /\ Len(result.items) > 0
    /\ storageState # 0

\* C3, as stated: in each of the five operations, a primary-path answer with
\* status 401 or 403 clears both session artifacts and ends the call with the
\* authentication-failure error; the call does not go on to another path.
C3_AsStated ==
    (op.name \in ReadOps \cup MutatingOps /\ obs.status \in {401, 403})
        => /\ obs.cleared
           /\ phase \notin {"fallback", "ui"}
           /\ Done => result = AuthenticationFailed(obs.status)

\* C4, as stated: a primary-path answer with status 401 leaves neither session
\* artifact on file, and the first ensureLoggedIn() after it never ends
\* without having run the login flow.
C4_AsStated ==
    /\ (obs.status = 401 /\ Done) => store = <<0, 0>>
    /\ obs.relogin # "skipped"

\* C5, as stated: when a read operation's primary-path answer has a status
\* that is not 2xx, 401, 403 or 404, the fallback path is not entered, the
\* session artifacts stay what they were, and the call ends with the
\* request-failure error that carries the status and at most the first 500
\* characters of the body, whatever the body holds.
C5_AsStated ==
    (op.name \in ReadOps /\ obs.status = 500)
        => /\ obs.fallbacks = 0
           /\ store = obs.atFail
           /\ Done => /\ result.kind = "error"
                      /\ result.error = "RequestFailed"
                      /\ result.status = obs.status
                      /\ result.bodyLen <= BodyLimit

\* The first 500 characters of the body hold "404" or "Not Found" whole.
MarkerInFirst500(b) == b.mlen > 0 /\ b.at + b.mlen <= BodyLimit

\* C5, amended: when a read operation's primary-path answer has a status that
\* is not 2xx, 401, 403 or 404 and the first 500 characters of its body hold
\* neither "404" nor "Not Found", the fallback path is not entered, the session
\* artifacts stay what they were, and the call ends with the request-failure
\* error that carries the status and at most the first 500 characters of the
\* body; when they hold one of the two, the call enters the fallback path.
C5_RequestFailure ==
    (op.name \in ReadOps /\ obs.status = 500)
        => IF MarkerInFirst500(obs.body)
           THEN obs.fallbacks = 1 /\ phase = "fallback"
           ELSE /\ obs.fallbacks = 0
                /\ store = obs.atFail
                /\ Done
                /\ result.kind = "error"
                /\ result.error = "RequestFailed"
                /\ result.status = obs.status
                /\ result.bodyLen = (IF obs.body.len < BodyLimit THEN obs.body.len ELSE BodyLimit)

\* C5, witness: a 500 whose body is longer than 500 characters and holds "404"
\* only after the 500th has ended the call with the request-failure error and
\* 500 characters of body.
C5_Witness ==
    /\ Done
    /\ op.name \in ReadOps
    /\ obs.status = 500
    /\ obs.body.len > BodyLimit
    /\ obs.body.mlen > 0
    /\ ~MarkerInFirst500(obs.body)
    /\ result.kind = "error"
    /\ result.error = "RequestFailed"
    /\ result.bodyLen = BodyLimit
    /\ obs.fallbacks = 0

\* The lifecycle values of a Zap and the sentinel.
ZapStatuses == {Str("on"), Str("off"), Str("draft"), Str("error"), Str("unknown")}

\* C6, as stated: every Zap summary that list_zaps returns, from the internal
\* API or from the page, has a status that is on, off, draft, error or unknown.
C6_AsStated ==
    (result.kind = "zaps" /\ Done)
        => \A i \in DOMAIN result.items : result.items[i].status \in ZapStatuses

\* C7, as stated: two answers that carry the same value under two vendor names
\* of one attribute give the same value of that attribute in the output, for
\* every value, 0, the empty string and the empty list among them.
C7_AsStated == result.kind = "pair" => result.first = result.second

\* C8, as stated: when reset() has been called twice in succession, both calls
\* returned success and neither session artifact is on file.
C8_AsStated ==
    (op.name = "reset" /\ obs.second /\ Done)
        => /\ obs.firstOk
           /\ result.kind = "reset"
           /\ result.success
           /\ store = <<0, 0>>

\* C9, as stated: reset() ends with a result, never an error; when close()
\* failed the result says success = false; and on every return path both
\* session artifacts have been removed.
C9_AsStated ==
    (op.name = "reset" /\ Done)
        => /\ result.kind = "reset"
           /\ obs.closeFailed => ~result.success
           /\ store = <<0, 0>>

\* C10, as stated: the snapshot that was on file when the command of one CLI
\* invocation had ended is on file when the next invocation starts.
C10_AsStated ==
    (cli.fresh /\ pc = "idle" /\ cli.left[1] # 0) => storageState = cli.left[1]

\* The operations that call ensureLoggedIn().
LoginOps == ReadOps \cup MutatingOps \cup {"discoverEndpoints"}

\* C11, as stated: when the configuration holds no credentials, an operation
\* that requires a login launches no browser and reconnects to none, and it
\* ends with the configuration error.
C11_AsStated ==
    (~creds /\ op.name \in LoginOps)
        => /\ ~obs.launched
           /\ ~obs.reconnected
           /\ Done => result.kind = "error" /\ result.error = "ConfigurationMissing"

\* C12: when the session-validity probe answers valid, ensureLoggedIn()
\* returns to its caller at once: the login flow is not entered, nothing is
\* raised (the credentials are not read, so their absence is not noticed), and
\* both session files stay what they were.
C12_ValidProbeReturns ==
    [][(pc = "probe" /\ obs'.lastProbe)
            => /\ pc' = ret
               /\ store' = store
               /\ logins' = logins
               /\ result' = result
               /\ obs'.loginRuns = obs.loginRuns
               /\ obs'.saved = obs.saved]_vars

\* C12, witness: with no credentials configured, a call has passed its one
\* probe, which was valid, and stands at its request with no login run.
C12_Witness ==
    /\ pc = "apiGet"
    /\ ~creds
    /\ obs.probes = 1
    /\ obs.lastProbe
    /\ obs.loginRuns = 0
    /\ result = NoResult

\* C13: whenever ensureLoggedIn() returns to its caller from the login flow
\* (the probe was invalid), the flow ended in success, directly or after the
\* interactive two-factor wait, and a new snapshot is on file at the return.
C13_ReturnAfterLoginSaved ==
    [][(pc = "login" /\ pc' = ret)
            => /\ ~obs.lastProbe
               /\ obs'.login \in LoginSuccess
               /\ storageState' = logins'
               /\ logins' = logins + 1
               /\ obs'.saved = obs.saved + 1]_vars

\* C13, witness: ensureLoggedIn() has returned after the interactive
\* two-factor wait, and the snapshot of that login is on file.
C13_Witness ==
    /\ pc = "apiGet"
    /\ ~obs.lastProbe
    /\ obs.login = "SuccessAfterTwoFactor"
    /\ obs.saved = 1
    /\ storageState = logins
    /\ storageState > 0

\* C14: when the 60 s wait of the login flow runs out on a page whose text
\* holds two-factor keywords and the client is not in interactive mode, the flow
\* takes a screenshot and then throws without the further wait; the error names
\* the two-factor screenshot and tells the operator to run with --debug; nothing
\* is written to the session files.
C14_TwoFactorNonInteractive ==
    [][(pc = "login" /\ obs'.flow.text \in {"tfa", "both"} /\ ~debug)
            => /\ obs'.login = "TwoFactorRequired"
               /\ obs'.flow.tail = <<"text", "screenshot", "throw">>
               /\ pc' # ret
               /\ store' = store
               /\ logins' = logins
               /\ obs'.saved = obs.saved
               /\ result'.kind = "error"
                    => /\ result'.error = "TwoFactorRequired"
                       /\ result'.screenshot = "zapier-2fa"
                       /\ result'.advice = "--debug"]_vars

\* C14, witness: a call has ended with the two-factor error of a client that
\* is not interactive.
C14_Witness ==
    /\ Done
    /\ ~debug
    /\ obs.flow.text = "tfa"
    /\ result.kind = "error"
    /\ result.error = "TwoFactorRequired"
    /\ result.screenshot = "zapier-2fa"
    /\ storageState = 0

\* C15: when the 60 s wait of the login flow runs out on a page whose text
\* holds two-factor keywords and the client is in interactive mode, the flow
\* waits the further 120 s; when the URL has left /app/login by then it saves
\* the snapshot and returns, and when it has not the flow throws.
C15_TwoFactorInteractive ==
    [][(pc = "login" /\ obs'.flow.text \in {"tfa", "both"} /\ debug)
            => /\ SubSeq(obs'.flow.tail, 1, 3) = <<"text", "screenshot", "wait120">>
               /\ obs'.flow.tail[4] = "arrived"
                    => /\ obs'.flow.tail = <<"text", "screenshot", "wait120", "arrived", "save">>
                       /\ obs'.login = "SuccessAfterTwoFactor"
                       /\ pc' = ret
                       /\ result' = result
                       /\ storageState' = logins'
                       /\ logins' = logins + 1
               /\ obs'.flow.tail[4] # "arrived"
                    => /\ obs'.flow.tail = <<"text", "screenshot", "wait120", "expired", "throw">>
                       /\ obs'.login = "TwoFactorTimeout"
                       /\ pc' # ret
                       /\ store' = store
                       /\ result'.kind = "error" => result'.error = "TwoFactorTimeout"]_vars

\* C15, witness: an interactive client has waited on the two-factor page, the
\* URL has left /app/login, and the snapshot of that login is on file.
C15_Witness ==
    /\ debug
    /\ obs.flow.text \in {"tfa", "both"}
    /\ obs.flow.tail = <<"text", "screenshot", "wait120", "arrived", "save">>
    /\ obs.login = "SuccessAfterTwoFactor"
    /\ storageState = logins
    /\ result = NoResult

\* C16: when the 60 s wait of the login flow runs out on a page whose text
\* holds bot-challenge keywords and no two-factor keywords, the flow takes a
\* screenshot and throws, in interactive mode and out of it: it does not wait
\* the further 120 s and writes nothing to the session files.
C16_CaptchaFailsAtOnce ==
    [][(pc = "login" /\ obs'.flow.text = "captcha")
            => /\ obs'.login = "CaptchaRequired"
               /\ obs'.flow.tail = <<"text", "screenshot", "throw">>
               /\ pc' # ret
               /\ store' = store
               /\ logins' = logins
               /\ obs'.saved = obs.saved
               /\ result'.kind = "error"
                    => /\ result'.error = "CaptchaRequired"
                       /\ result'.screenshot = "zapier-captcha"]_vars

\* C16, witness: a call of an interactive client has ended with the
\* bot-challenge error.
C16_Witness ==
    /\ Done
    /\ debug
    /\ obs.flow.text = "captcha"
    /\ result.kind = "error"
    /\ result.error = "CaptchaRequired"
    /\ result.screenshot = "zapier-captcha"

\* The read operations whose fallback listens for a list.
ListOps == {"listZaps", "viewHistory"}

\* C17, as stated: on the read fallback of list_zaps and view_history, when
\* the 15 s timer fires with no matching answer, the call ends with the empty
\* collection of its type and with no error.
C17_AsStated ==
    (op.name \in ListOps /\ obs.listen = "timeout")
        => /\ Done
           /\ result.kind = ValueKind(op.name)
           /\ result.items = <<>>

\* C17, amended: on the read fallback of list_zaps and view_history, when the
\* 15 s timer fires with no matching answer and the navigation to the page has
\* succeeded, the call ends with the empty collection of its type, taken from
\* the page, and with no error; when the navigation has failed, the call ends
\* with the navigation's error.
C17_TimeoutGivesEmpty ==
    (op.name \in ListOps /\ obs.listen = "timeout")
        => /\ Done
           /\ phase = "fallback"
           /\ obs.nav = "ok"
                => /\ result.kind = ValueKind(op.name)
                   /\ result.path = "page"
                   /\ result.items = <<>>
           /\ obs.nav # "ok"
                => /\ obs.nav = "failed"
                   /\ result.kind = "error"
                   /\ result.error = "NavigationFailed"

\* C17, witness: a view_history has ended on the fallback path with the empty
\* list after the timer fired.
C17_Witness ==
    /\ Done
    /\ op.name = "viewHistory"
    /\ phase = "fallback"
    /\ obs.listen = "timeout"
    /\ obs.nav = "ok"
    /\ result.kind = "runs"
    /\ result.items = <<>>

\* The screenshots taken after the confirmation step.
PostActionShots == {"zapier-replay-confirm", "zapier-toggle-confirm"}

\* The screenshots taken right after the search for the control.
SearchShots == {"zapier-replay", "zapier-toggle"}

\* The steps of a sequence, as a set.
StepSet(st) == {st[i] : i \in DOMAIN st}

\* C18: for replay_run and toggle_zap the internal-API call is attempted once
\* and sends at most one request; the call ends on the API path only with a
\* success, and after any failure of the attempt it goes on to the UI part,
\* which navigates; a success of the UI part has clicked the first candidate
\* that matches, in the order of the list, then confirmed the dialog exactly
\* when one was visible, and only then taken the screenshot it names.
C18_ApiOnceThenUi ==
    op.name \in MutatingOps
        => /\ obs.attempts <= 1
           /\ obs.requests <= obs.attempts
           /\ phase = "ui"
                => /\ obs.attempts = 1
                   /\ \/ obs.requests = 1 /\ ~IsOk(obs.status)
                      \/ op.name = "toggleZap" /\ obs.requests = 1
                      \/ /\ op.name = "toggleZap" /\ obs.requests = 0
                         /\ obs.login \notin LoginSuccess \cup {"none"}
           /\ (Done /\ phase # "ui" /\ obs.attempts = 1)
                => /\ result.kind = "action"
                   /\ result.success
                   /\ result.via = "api"
                   /\ IsOk(obs.status)
           /\ (Done /\ phase = "ui") => obs.nav \in {"ok", "failed"}
           /\ (Done /\ phase = "ui" /\ result.kind = "action" /\ result.success)
                => LET st == obs.ui.steps
                       n == Len(st)
                   IN  /\ obs.nav = "ok"
                       /\ result.via = "ui"
                       /\ obs.ui.control \in obs.ui.matches
                       /\ \A j \in obs.ui.matches : obs.ui.control <= j
                       /\ obs.ui.matches \subseteq Candidates(op.name)
                       /\ SubSeq(st, 1, 3) = <<"goto", "click", "screenshot">>
                       /\ SubSeq(st, n - 1, n) = <<"screenshot", "return">>
                       /\ n = IF obs.ui.dialog THEN 6 ELSE 5
                       /\ obs.ui.dialog => st[4] = "confirm"
                       /\ obs.confirmed = obs.ui.dialog
                       /\ result.screenshot \in PostActionShots

\* C18, witness: a replay_run whose POST was answered 500 has ended with a
\* success of the UI part, which clicked the second candidate, the first one
\* on the page, and confirmed a dialog.
C18_Witness ==
    /\ Done
    /\ op.name = "replayRun"
    /\ phase = "ui"
    /\ obs.status = 500
    /\ obs.requests = 1
    /\ obs.ui.matches = {2, 4}
    /\ obs.ui.control = 2
    /\ obs.ui.dialog
    /\ result.kind = "action"
    /\ result.success
    /\ result.screenshot = "zapier-replay-confirm"

\* C19: on the UI part of replay_run and toggle_zap, when the page was reached
\* and no candidate matches, the call ends with a result, not an error, whose
\* success is false and which names the screenshot taken after the search;
\* nothing was clicked, the confirmation button neither.
C19_NoControlReported ==
    (op.name \in MutatingOps /\ phase = "ui" /\ obs.nav = "ok" /\ obs.ui.matches = {})
        => /\ Done
           /\ result.kind = "action"
           /\ ~result.success
           /\ result.screenshot \in SearchShots
           /\ ~obs.clicked
           /\ ~obs.confirmed
           /\ StepSet(obs.ui.steps) \cap {"click", "confirm"} = {}

\* C19, witness: a toggle_zap whose PATCH was answered 500 has ended with the
\* reported failure of the UI part.
C19_Witness ==
    /\ Done
    /\ op.name = "toggleZap"
    /\ phase = "ui"
    /\ obs.status = 500
    /\ obs.nav = "ok"
    /\ obs.ui.matches = {}
    /\ result.kind = "action"
    /\ ~result.success
    /\ result.screenshot = "zapier-toggle"

\* C20: a toggle_zap(id, enable) whose primary attempt failed and whose UI
\* part clicked a control ends with success = true, the message
\* "Zap <id> enabled via UI." when enable is true and "Zap <id> disabled via UI."
\* when it is false, and the screenshot taken after the confirmation step; the
\* PATCH body it sent has status "on" when enable is true and "off" when not.
C20_ToggleViaUi ==
    op.name = "toggleZap"
        => /\ (Done /\ phase = "ui" /\ obs.clicked)
                => /\ result.kind = "action"
                   /\ result.success
                   /\ result.message = (IF op.enable
                                        THEN "Zap " \o op.id \o " enabled via UI."
                                        ELSE "Zap " \o op.id \o " disabled via UI.")
                   /\ result.screenshot = "zapier-toggle-confirm"
           /\ obs.requests = 1
                => /\ obs.patch \in {"on", "off"}
                   /\ obs.patch = "on" <=> op.enable

\* C20, witness: toggle_zap("55", false) whose PATCH was answered 500 has
\* ended with "Zap 55 disabled via UI." after a click in the UI.
C20_Witness ==
    /\ Done
    /\ op.name = "toggleZap"
    /\ op.id = "55"
    /\ ~op.enable
    /\ phase = "ui"
    /\ obs.status = 500
    /\ obs.patch = "off"
    /\ obs.clicked
    /\ result.kind = "action"
    /\ result.success
    /\ result.message = "Zap 55 disabled via UI."
    /\ result.screenshot = "zapier-toggle-confirm"

\* The run of the scenario: id 9, zap_id "123", status "error".
ScenarioRun ==
    Obj(("id" :> Num(9)) @@ ("zap_id" :> Str("123")) @@ ("status" :> Str("error")))

\* The vendor's value of a run's Zap id: zap.id, else zap_id, else "".
VendorZapId(r) ==
    IF Truthy(Get(Get(r, "zap"), "id")) THEN Get(Get(r, "zap"), "id")
    ELSE IF Truthy(Get(r, "zap_id")) THEN Get(r, "zap_id")
    ELSE Str("")

Listed(o) ==
    IF o.path = "api" THEN ExtractList(o.data, Arr(<<>>)).items
    ELSE IF o.name = "viewHistory"
    THEN Slice(Intercepted(o.data), IF o.limit # 0 THEN o.limit ELSE DefaultLimit)
    ELSE Intercepted(o.data)

\* The text of a vendor id: the digits of a number, the string itself.
IdText(v, out) ==
    /\ out.t = "string"
    /\ v.t = "number" => out.v = ToString(v.v)
    /\ v.t = "string" => out = v

\* C29: every id in every output (a Zap summary's id, a run record's id and
\* zapId, a run detail's id and zapId) is a string, on the API path and on the
\* page path: the digits of a numeric vendor id, a string vendor id unchanged.
C29_IdsAreStrings ==
    /\ result.kind \in {"zaps", "runs"}
        => /\ Len(result.items) = Len(Listed(op))
           /\ \A i \in DOMAIN result.items :
                /\ IdText(Get(Listed(op)[i], "id"), result.items[i].id)
                /\ result.kind = "runs"
                     => IdText(VendorZapId(Listed(op)[i]), result.items[i].zapId)
    /\ result.kind = "detail"
        => /\ result.items[1].id.t = "string"
           /\ result.items[1].zapId.t = "string"
           /\ result.items[1] # PageTextDetail
                => /\ IdText(Get(op.data, "id"), result.items[1].id)
                   /\ IdText(VendorZapId(op.data), result.items[1].zapId)

\* C29, witness: on the page path a list of two Zaps, the first with the
\* numeric id 7 and the second with the string id "7", gave "7" and "7".
C29_Witness ==
    /\ result.kind = "zaps"
    /\ result.path = "page"
    /\ Len(result.items) = 2
    /\ Get(Listed(op)[1], "id") = Num(7)
    /\ Get(Listed(op)[2], "id") = Str("7")
    /\ result.items[1].id = Str("7")
    /\ result.items[2].id = Str("7")

\* C22, as stated: in no execution of replay_run or toggle_zap does the core
\* itself click a confirmation.
C22_AsStated == op.name \in MutatingOps => ~obs.confirmed

\* C22: replay_run and toggle_zap issue no confirmation on the API path; on
\* the UI path the core itself clicks the vendor's confirmation button, and it
\* does so exactly when the page was reached, an action control was clicked
\* and a confirmation button was visible after that click.
C22_ConfirmsVendorDialogOnly ==
    op.name \in MutatingOps
        => /\ obs.confirmed
                => /\ phase = "ui"
                   /\ obs.nav = "ok"
                   /\ obs.clicked
                   /\ obs.ui.control # 0
                   /\ obs.ui.dialog
                   /\ "confirm" \in StepSet(obs.ui.steps)
           /\ (Done /\ phase = "ui" /\ obs.clicked /\ obs.ui.dialog) => obs.confirmed
           /\ (Done /\ result.kind = "action" /\ result.via = "api")
                => /\ ~obs.confirmed
                   /\ ~obs.clicked
                   /\ obs.ui = NoUi

\* C22, witness: a toggle_zap that enables a Zap, called with no confirmation
\* step of its own before it, has ended on the UI path after the core clicked
\* the vendor's confirmation button.
C22_Witness ==
    /\ Done
    /\ op.name = "toggleZap"
    /\ op.enable
    /\ phase = "ui"
    /\ obs.clicked
    /\ obs.confirmed
    /\ "confirm" \in StepSet(obs.ui.steps)
    /\ result.kind = "action"
    /\ result.success

\* The management commands, by the method of the browser client they call.
ManagementOps ==
    ReadOps \cup MutatingOps \cup {"discoverEndpoints", "takeScreenshot", "reset"}

\* The step is the start of disconnect(), or the end of the invocation.
DisconnectStep == pc = "idle" /\ pc' \in {"reset", "exit"} /\ after' # "idle"
ExitStep == pc = "exit" \/ (pc = "idle" /\ pc' = "exit")

\* C23: the MCP client is set only when the invocation has run an MCP
\* command and the browser client only when it has run a management command;
\* no step of a management operation changes the MCP client, and no step of an
\* MCP command changes the browser client, the browser or the session store;
\* besides the commands only disconnect() and the end of the process touch them.
C23_FamiliesSeparate ==
    /\ [](mcp # "none" => "mcp" \in cli.ran)
    /\ [](client => "management" \in cli.ran)
    /\ [][mcp' # mcp
            => \/ pc = "mcp" /\ op.name \in McpOps
               \/ DisconnectStep
               \/ ExitStep]_vars
    /\ [][<<client, memory, store, logins, launches>>'
                # <<client, memory, store, logins, launches>>
            => \/ op'.name \in ManagementOps /\ pc # "mcp"
               \/ ExitStep]_vars

\* C23, witness: one combined client has run a command of each family; both
\* clients are set, the MCP client is connected and a browser is held.
C23_Witness ==
    /\ pc = "idle"
    /\ cli.ran = {"mcp", "management"}
    /\ mcp = "connected"
    /\ client
    /\ browser # "none"
    /\ op.name \in McpOps
\* C24: ensure_ready() always ends with a usable page; a page held in memory
\* is reused and no browser is launched; a fresh launch restores the snapshot
\* on file into the new context and persists a new live-process handle.
C24_AsStated ==
    [][pc = "ensureBrowser" =>
        /\ page' /\ pc' \in {"probe", "screenshot"}
        /\ (page /\ LoadCDPSession = 0 => launches' = launches)
        /\ (launches' # launches =>
                /\ restored' = storageState'
                /\ cdpSession' = launches')]_vars

\* C30: loading session state never fails: no call ends with the error that
\* creating the context from the snapshot on file raises.
C30_AsStated ==
    result.kind = "error" => result.error # "ContextFailed"

\* C25: no call leaves a browser alive that the controller no longer holds.
C25_AsStated == obs.dropped = {}

\* The steps at which a call is about to issue an internal-API request or to
\* drive the page.
RequestOrAction ==
    {"apiGet", "patchRequest", "replayPost", "discover", "toggleUI", "replayUI",
     "fallbackNav"}

\* C26: a session-validity probe of the same call has completed before the
\* call's first internal-API request or page-driven action, and the read
\* fallback has a completed probe of its own before it touches the page.
C26_ProbeBeforeFirst ==
    /\ pc \in RequestOrAction => obs.probes >= 1
    /\ pc = "fallbackNav" => obs.probes >= 2
    /\ (obs.requests > 0 \/ obs.nav # "none" \/ obs.clicked) => obs.probes >= 1

\* A request about to go out on a reconnected browser with a snapshot on
\* file, after the one probe of the call.
C26_Witness ==
    /\ pc = "apiGet" /\ storageState # 0 /\ obs.reconnected
    /\ obs.probes = 1 /\ obs.lastProbe

C28_NeverHangs ==
    /\ (pc \notin {"idle", "exit"}) ~> (pc \in {"idle", "exit"} /\ result # NoResult)
    /\ [][pc = "login"
           /\ (\E i \in DOMAIN obs'.flow.tail : obs'.flow.tail[i] = "wait120")
           => debug]_vars

\* A call has ended with the error of the two-factor wait that ran out.
C28_Witness ==
    /\ pc = "idle" /\ debug /\ result.kind = "error"
    /\ \E i \in DOMAIN obs.flow.tail : obs.flow.tail[i] = "expired"

\* C31: a read operation makes the same items, in the same order and with the
\* same field values, of one vendor payload on its primary path and on its
\* fallback path, for the same arguments.
C31_AsStated ==
    (op.attr = "list" /\ result # NoResult) =>
        FromApi(op.name, op.data).items = FromPage(op.name, op.data, op.limit).items

\* C37: viewHistory returns at most `limit` runs, and at most 25 when no limit
\* is given, on the primary path and on the fallback path.
C37_AsStated ==
    (op.attr = "list" /\ op.name = "viewHistory" /\ result # NoResult) =>
        Len(result.items) <= (IF op.limit # 0 THEN op.limit ELSE DefaultLimit)

\* C32: once the fallback's promise is settled by an answer, it holds the list
\* of the first response to arrive that holds one, whatever the order in which
\* the bodies were parsed.
C32_AsStated ==
    (Installed /\ listener.settled = "answer") =>
        \E j \in 1..Len(listener.arrived) :
            /\ HoldsList(listener.arrived[j])
            /\ \A k \in 1..(j - 1) : ~HoldsList(listener.arrived[k])
            /\ listener.value = ExtractList(listener.arrived[j], Undef).items

\* C38: when the fallback has ended, by a value or by an error, its listener
\* is no longer on the page.
C38_AsStated ==
    (Installed /\ pc = "idle" /\ result # NoResult) => ~listener.on

\* The place of a state in the order of the login flow.
OrderIndex(at) == CHOOSE i \in 1..Len(LoginOrder) : LoginOrder[i] = at

\* The e-mail selectors a run of the flow waited for, in the order it did.
SelectorsTried(steps) ==
    LET tries == SelectSeq(steps, LAMBDA x : x.at = "FillingEmail"
                                            /\ x.act = "waitForSelector")
    IN  [i \in 1..Len(tries) |-> tries[i].arg]

\* C33: the login flow goes through its states in the fixed order, starting
\* at the first and skipping none, and ends once, with its last statement;
\* it waits for the e-mail selectors in list order and stops at the first
\* that matches; when none matches it takes a screenshot and fails as
\* NoEmailField with no credential typed.
C33_LoginOrder ==
    result.kind = "login" =>
        LET steps == result.steps
            n == Len(steps)
            first == IF op.present = {} THEN 0
                     ELSE CHOOSE k \in op.present : \A j \in op.present : k <= j
        IN  /\ n >= 1 /\ steps[1].at = LoginOrder[1]
            /\ \A i \in 1..(n - 1) :
                  /\ OrderIndex(steps[i + 1].at) \in
                        {OrderIndex(steps[i].at), OrderIndex(steps[i].at) + 1}
                  /\ steps[i].act \notin {"throw", "save"}
            /\ steps[n].act \in {"throw", "save"}
            /\ (steps[n].act = "save") = (result.outcome \in LoginSuccess)
            /\ (result.outcome \in LoginSuccess) = (result.error = NoResult)
            /\ (creds /\ op.env.gotoOk) =>
                  /\ SelectorsTried(steps) =
                        SubSeq(EmailSelectors, 1, IF first = 0 THEN 4 ELSE first)
                  /\ first = 0 =>
                        /\ result.outcome = "NoEmailField"
                        /\ n >= 2 /\ steps[n - 1].act = "screenshot"
                        /\ \A i \in 1..n : steps[i].act # "fill"
            /\ \A i \in 1..n : steps[i].act = "fill" =>
                  \E j \in 1..(i - 1) :
                      /\ steps[j].act = "waitForSelector"
                      /\ steps[j].arg =
                            IF steps[i].arg = "email" THEN EmailSelectors[first]
                            ELSE "password"

\* A run in which only the third and the fourth e-mail selector match, that
\* went through all five states and ended with the snapshot saved.
C33_Witness ==
    /\ result.kind = "login" /\ op.present = {3, 4}
    /\ result.outcome = "Success"
    /\ result.steps[Len(result.steps)].at = "Submitting"

TwoFactorOutcomes == {"TwoFactorRequired", "TwoFactorTimeout", "SuccessAfterTwoFactor"}

\* C34: when the wait after the password has run out, the page text decides
\* the outcome: two-factor words give a two-factor outcome, also when the
\* bot-challenge words are there too; bot-challenge words alone give
\* CaptchaRequired; neither gives GenericFailure, which takes a screenshot
\* and fails with the stuck URL and the screenshot's path in its message.
C34_TimeoutClassified ==
    (result.kind = "login" /\ TimedOut(op.env)) =>
        LET n == Len(result.steps)
        IN  /\ (op.env.text \in {"tfa", "both"}) = (result.outcome \in TwoFactorOutcomes)
            /\ (op.env.text = "captcha") = (result.outcome = "CaptchaRequired")
            /\ (op.env.text = "none") = (result.outcome = "GenericFailure")
            /\ result.outcome = "GenericFailure" =>
                  /\ result.error.kind = "error"
                  /\ result.error.screenshot = "zapier-login-failed"
                  /\ result.error.url = "page.url()"
                  /\ result.steps[n - 1].act = "screenshot"
                  /\ result.steps[n].act = "throw"

\* A run that timed out on a page with both kinds of words, without the
\* debug flag, and ended as TwoFactorRequired.
C34_Witness ==
    /\ result.kind = "login" /\ TimedOut(op.env) /\ op.env.text = "both"
    /\ ~debug /\ result.outcome = "TwoFactorRequired"

\* C35: a toggleZap() call whose PATCH was answered 2xx clicks no toggle
\* control, whatever the body of that answer.
C35_AsStated ==
    (op.name = "toggleZap" /\ obs.requests = 1 /\ IsOk(obs.status)) => ~obs.clicked

\* The states of a Zap at the vendor.
ZapStates == {"on", "off"}

\* A click on the Zap's switch turns it the other way.
Flipped(state) == IF state = "on" THEN "off" ELSE "on"

\* The state of the Zap after the running (or last) toggleZap() call, given
\* the state it had before: a PATCH answered 2xx has set the status sent,
\* and a click on the toggle control has flipped what was there then.
ZapStateAfter(prior) ==
    LET patched == IF obs.requests = 1 /\ IsOk(obs.status) THEN obs.patch ELSE prior
    IN  IF obs.clicked THEN Flipped(patched) ELSE patched

\* C36: when toggleZap(id, enable) has returned success, the Zap is in the
\* state asked for, whatever state it was in before and on either path.
C36_AsStated ==
    (pc = "idle" /\ op.name = "toggleZap" /\ result.kind = "action" /\ result.success) =>
        \A prior \in ZapStates : ZapStateAfter(prior) = PatchData(op.enable).status


\* The step of ensureBrowser() in which connectOverCDP() threw: a handle was
\* on file, no browser was held, and a browser was launched that replaced no
\* connected one.
FailedReconnectStep ==
    /\ pc = "ensureBrowser"
    /\ LoadCDPSession # 0
    /\ browser = "none"
    /\ launches' = launches + 1
    /\ "connected" \notin obs'.dropped

\* C39, as stated: a failed reconnection in ensureBrowser() leaves the
\* authentication snapshot on file as it was, and the browser launched in the
\* same call restores it into its context.
C39_AsStated ==
    [][(FailedReconnectStep /\ storageState \notin {0, Corrupt})
          => /\ storageState' = storageState
             /\ restored' = storageState]_vars


\* C40: the login flow writes the authentication snapshot only as the
\* statement that follows a waitForURL() that saw the browser leave the login
\* URL (the 60 s one, with the save as the next statement, or the 120 s one of
\* the two-factor wait); when the flow ends in any of its failures (missing
\* credentials, login page not loaded, no e-mail or password field, two-factor
\* page in non-interactive mode, two-factor wait expired, bot challenge, any
\* other page the flow is stuck at) the snapshot on file is the one that was
\* there when the flow started.
C40_SavedOnlyAfterLeaving ==
    [][LET failures ==
               {"ConfigurationMissing", "NavigationFailed", "NoEmailField",
                "NoPasswordField", "TwoFactorRequired", "TwoFactorTimeout",
                "CaptchaRequired", "GenericFailure"}
           left(flow) ==
               \/ flow.text = "unread" /\ flow.tail = <<"save">>
               \/ /\ Len(flow.tail) >= 2
                  /\ SubSeq(flow.tail, Len(flow.tail) - 1, Len(flow.tail))
                       = <<"arrived", "save">>
       IN  pc = "login" =>
              /\ obs'.login \in failures => UNCHANGED <<storageState, logins>>
              /\ obs'.login \notin failures => left(obs'.flow)
              /\ storageState' # storageState =>
                    /\ left(obs'.flow)
                    /\ storageState' = logins'
                    /\ logins' = logins + 1]_vars

\* C40, witness: a call whose one login flow ended with the 120 s two-factor
\* wait expired has raised, and the snapshot that was on file is still there.
C40_Witness ==
    /\ Done
    /\ obs.loginRuns = 1
    /\ obs.login = "TwoFactorTimeout"
    /\ obs.flow.tail = <<"text", "screenshot", "wait120", "expired", "throw">>
    /\ obs.saved = 0
    /\ storageState # 0
    /\ storageState = logins
    /\ result.kind = "error"
    /\ result.error = "TwoFactorTimeout"

============================================================================
